---- MODULE Spec2Model ----
(***************************************************************************)
(* Model of the coderoom collaboration server: the OT engine, the          *)
(* DocumentManager (in-memory authority with lazy write-back), the         *)
(* ConnectionManager (sessions, routing, broadcast) and the editor client  *)
(* (optimistic local apply, verbatim remote apply).                        *)
(*                                                                         *)
(* Every handler is an async function on Node's event loop.  An event     *)
(* (frames of one socket, replies of a store connection) runs its          *)
(* callbacks synchronously; the continuations of settled awaits then run   *)
(* from the microtask queue, first in first out, before the next event.    *)
(* Each action below is one synchronous stretch of code.                   *)
(***************************************************************************)
EXTENDS Integers, Sequences, FiniteSets, TLC

VARIABLES
    db,          \* durable store: docId -> record
    documents,   \* DocumentManager.documents: docId -> index into heap, 0 = no entry
    heap,        \* the DocumentState objects ever created
    clients,     \* the Client objects: userId, docId
    registered,  \* the keys of ConnectionManager.clients
    presence,    \* the presence hashes of the ephemeral store
    expiry,      \* per presence hash, when it expires (0 = never) and its last write
    tasks,       \* one handler invocation per inbound frame, kept as history
    mq,          \* microtask queue: handlers whose awaited promise has settled
    rq,          \* commands sent on the single presence-store connection, unanswered
    turn,        \* what the event loop is doing
    sent,        \* per session, the frames written to its socket, in order
    now,         \* Date.now()
    applied,     \* history: the operations applied to DocumentState objects
    nextOpId,    \* next fresh opId
    editor,      \* per session, the editor store of its browser
    rd,          \* per session, how many frames of sent its browser has handled
    ot           \* the locals of a direct run of the OTEngine functions

vars == <<db, documents, heap, clients, registered, presence, expiry, tasks, mq, rq, turn,
          sent, now, applied, nextOpId, editor, rd, ot>>

----------------------------------------------------------------------------
(* Bounds of the model *)

MaxApply == 2
MaxJoin == 1
MaxClose == 1
MaxFrames == 2
MaxTime == 2000
MaxBase == 1
MaxPos == 0
MaxStored == 1
MaxOps == 3
MaxAt == 1
MaxSeqBase == 1
MaxLen == 3
MaxDel == 2
MaxIdle == 10000
MaxQuiet == 60000
MaxCalls == 3
MaxEdits == 1
MaxCursor == 3
MaxRetry == 3
MaxAttempts == 2

(* Program constants *)

SAVE_INTERVAL == 2000
SAVE_OP_THRESHOLD == 20
TAIL_KEEP == 10
SAVE_CHECK_PERIOD == 10000
PRESENCE_TTL == 30

Sessions == {"s1", "s2"}
Users == {"u1", "u2"}
Docs == {"d1", "d2"}
NoDoc == "none"

(* the user id the verified token of each session carries *)
userOf(c) == IF c = "s1" THEN "u1" ELSE "u2"

(* stand-in for the seed text createDocument stores *)
Seed == <<"a", "b">>
Texts == {<<"x">>}

----------------------------------------------------------------------------
(* JavaScript helpers *)

Min(a, b) == IF a < b THEN a ELSE b
Max(a, b) == IF a > b THEN a ELSE b

(* String.prototype.slice(from, to) on a sequence of characters *)
Slice(s, from, to) ==
    LET n == Len(s)
        f == IF from < 0 THEN Max(n + from, 0) ELSE Min(from, n)
        t == IF to < 0 THEN Max(n + to, 0) ELSE Min(to, n)
    IN  IF f < t THEN SubSeq(s, f + 1, t) ELSE <<>>

SliceFrom(s, from) == Slice(s, from, Len(s))

(* Array.prototype.slice(-k) *)
LastK(s, k) == IF Len(s) <= k THEN s ELSE SubSeq(s, Len(s) - k + 1, Len(s))

----------------------------------------------------------------------------
(* OTEngine *)

(* Case C, partial overlap: overlapEnd - overlapStart *)
OverlapLengthFromStart(op, otherOp) ==
    Min(otherOp.position + otherOp.length, op.position + op.length) - otherOp.position

OverlapLength(op, otherOp) ==
    Min(otherOp.position + otherOp.length, op.position + op.length)
        - Max(otherOp.position, op.position)

TransformStrict(op, otherOp) ==
    LET deleteStart == otherOp.position
        deleteEnd == otherOp.position + otherOp.length
        ourDeleteEnd == op.position + op.length
        pos1 == IF otherOp.type = "insert"
                THEN IF otherOp.position < op.position
                     THEN op.position + Len(otherOp.text)
                     ELSE op.position
                ELSE IF deleteEnd <= op.position
                     THEN op.position - otherOp.length
                     ELSE IF deleteStart < op.position /\ deleteEnd > op.position
                          THEN deleteStart
                          ELSE op.position
        contained == deleteStart <= op.position /\ deleteEnd >= ourDeleteEnd
        partial == deleteStart < ourDeleteEnd /\ deleteEnd > op.position
        overlapLength == Min(deleteEnd, ourDeleteEnd) - Max(deleteStart, op.position)
    IN  IF otherOp.type = "delete" /\ op.type = "delete"
        THEN IF contained
             THEN [op EXCEPT !.position = pos1, !.length = 0]
             ELSE IF partial
                  THEN [op EXCEPT !.position = IF deleteStart <= op.position
                                               THEN deleteStart ELSE pos1,
                                  !.length = op.length - overlapLength]
                  ELSE [op EXCEPT !.position = pos1]
        ELSE [op EXCEPT !.position = pos1]

Transform(op, otherOp) ==
    LET deleteStart == otherOp.position
        deleteEnd == otherOp.position + otherOp.length
        ourDeleteEnd == op.position + op.length
        pos1 == IF otherOp.type = "insert"
                THEN IF otherOp.position <= op.position
                     THEN op.position + Len(otherOp.text)
                     ELSE op.position
                ELSE IF deleteEnd <= op.position
                     THEN op.position - otherOp.length
                     ELSE IF deleteStart < op.position /\ deleteEnd > op.position
                          THEN deleteStart
                          ELSE op.position
        contained == deleteStart <= op.position /\ deleteEnd >= ourDeleteEnd
        partial == deleteStart < ourDeleteEnd /\ deleteEnd > op.position
        overlapLength == OverlapLength(op, otherOp)
    IN  IF otherOp.type = "delete" /\ op.type = "delete"
        THEN IF contained
             THEN [op EXCEPT !.position = pos1, !.length = 0]
             ELSE IF partial
                  THEN [op EXCEPT !.position = IF deleteStart <= op.position
                                               THEN deleteStart ELSE pos1,
                                  !.length = op.length - overlapLength]
                  ELSE [op EXCEPT !.position = pos1]
        ELSE [op EXCEPT !.position = pos1]

(* apply with the text after an insertion taken one character late *)
ApplyShifted(content, op) ==
    IF op.type = "insert"
    THEN Slice(content, 0, op.position) \o op.text \o SliceFrom(content, op.position + 1)
    ELSE IF op.type = "delete"
         THEN Slice(content, 0, op.position)
              \o SliceFrom(content, op.position + op.length)
         ELSE content

Apply(content, op) ==
    IF op.type = "insert"
    THEN Slice(content, 0, op.position) \o op.text \o SliceFrom(content, op.position)
    ELSE IF op.type = "delete"
         THEN Slice(content, 0, op.position)
              \o SliceFrom(content, op.position + op.length)
         ELSE content

(* validate without the lower bound on position *)
ValidateNoLowerBound(content, op) ==
    IF op.position > Len(content)
    THEN FALSE
    ELSE IF op.type = "insert"
         THEN Len(op.text) > 0
         ELSE IF op.type = "delete"
              THEN op.length > 0 /\ op.position + op.length <= Len(content)
              ELSE FALSE

Validate(content, op) ==
    IF op.position < 0 \/ op.position > Len(content)
    THEN FALSE
    ELSE IF op.type = "insert"
         THEN Len(op.text) > 0
         ELSE IF op.type = "delete"
              THEN op.length > 0 /\ op.position + op.length <= Len(content)
              ELSE FALSE

----------------------------------------------------------------------------
(* Wire messages (shared/ws.types.ts) *)

NoOp == [opId |-> 0, docId |-> NoDoc, userId |-> "none", baseVersion |-> 0,
         type |-> "none", position |-> 0, text |-> <<>>, length |-> 0]

AckOp(opId, newVersion) == [type |-> "ACK_OP", opId |-> opId, newVersion |-> newVersion]
BroadcastOp(op) == [type |-> "BROADCAST_OP", op |-> op]
ErrorMsg(message) == [type |-> "ERROR", message |-> message]
SyncState(content, version, cursors) ==
    [type |-> "SYNC_STATE", content |-> content, version |-> version, cursors |-> cursors]
UserJoined(userId) == [type |-> "USER_JOINED", userId |-> userId]
UserLeft(userId) == [type |-> "USER_LEFT", userId |-> userId]
CursorUpdate(position) == [type |-> "CURSOR_UPDATE", position |-> position]

----------------------------------------------------------------------------
(* ConnectionManager: outbound paths.  s is the per-session log of frames   *)
(* written to the socket, reg the keys of the clients map, cl its values.  *)

SendToClient(s, reg, clientId, message) ==
    IF clientId \in reg
    THEN [s EXCEPT ![clientId] = Append(@, message)]
    ELSE s

BroadcastToDocument(s, reg, cl, docId, message, excludeClientId) ==
    [c \in Sessions |->
        IF c \in reg /\ cl[c].docId = docId /\ c # excludeClientId
        THEN Append(s[c], message)
        ELSE s[c]]

----------------------------------------------------------------------------
(* PresenceManager: the hash presence:doc:<docId>, userId -> cursor        *)
(* position, -1 standing for "no field".  The store executes the commands  *)
(* of its one connection in the order they were sent, so a command takes   *)
(* effect when it is sent and its reply arrives later, in order (rq).      *)

NoCursor == -1

HSet(pr, docId, userId, position) == [pr EXCEPT ![docId][userId] = position]
HDel(pr, docId, userId) == [pr EXCEPT ![docId][userId] = NoCursor]
GetCursors(pr, docId) == pr[docId]
GetUsers(pr, docId) == {u \in Users : pr[docId][u] # NoCursor}

(* the expiry of the hash of docId after hset or hdel left it as in pr: a  *)
(* hash without fields is no key, and no key has no expiry                 *)
Touch(ex, pr, docId) ==
    [ex EXCEPT ![docId] = [at |-> IF GetUsers(pr, docId) = {} THEN 0 ELSE @.at,
                           wrote |-> now, renewed |-> @.renewed]]

(* expire(key, PRESENCE_TTL): seconds, on a clock of milliseconds *)
SetExpire(ex, pr, docId) ==
    [ex EXCEPT ![docId] = [at |-> IF GetUsers(pr, docId) = {} THEN 0
                                  ELSE now + PRESENCE_TTL * 1000,
                           wrote |-> now, renewed |-> now]]

(* the clock reaches t: the hashes whose expiry has come are gone *)
Elapse(t) ==
    /\ now' = t
    /\ presence' = [d \in Docs |-> IF expiry[d].at # 0 /\ t >= expiry[d].at
                                   THEN [u \in Users |-> NoCursor] ELSE presence[d]]
    /\ expiry' = [d \in Docs |-> IF expiry[d].at # 0 /\ t >= expiry[d].at
                                 THEN [expiry[d] EXCEPT !.at = 0] ELSE expiry[d]]

(* the expiry of the hashes after joins at time 0 *)
JoinedExpiry(pr) ==
    [d \in Docs |-> [at |-> IF GetUsers(pr, d) = {} THEN 0 ELSE PRESENCE_TTL * 1000,
                     wrote |-> 0, renewed |-> 0]]

----------------------------------------------------------------------------
(* Handler tasks.  at is history: how many frames the session had been    *)
(* sent when the frame of this handler arrived.                            *)

NoSnap == [content |-> <<>>, version |-> 0]

(* what findById resolves to for an id the store has no document under *)
NoRecord == [content |-> <<>>, version |-> -1]

NewTask(kind, cid, pc, docId, op) ==
    [kind |-> kind, cid |-> cid, pc |-> pc, hops |-> 0, docId |-> docId, left |-> NoDoc,
     op |-> op, st |-> 0, top |-> NoOp, newVersion |-> 0, snap |-> NoSnap,
     cursors |-> [u \in Users |-> NoCursor], pst |-> 0, err |-> "none",
     outcome |-> "none", members |-> {}, at |-> Len(sent[cid])]

Finish(t, outcome) == [t EXCEPT !.pc = "done", !.outcome = outcome]

TaskIds == 1..Len(tasks)

NumTasks(kind) == Cardinality({i \in TaskIds : tasks[i].kind = kind})

(* history: the sessions joined to docId now *)
JoinedTo(docId) == {c \in registered : clients[c].docId = docId}

(* the event loop: an event of source src may run when the loop is idle or *)
(* still inside the same event; microtasks run once the event's callbacks  *)
(* returned and until their queue is empty                                 *)
MacroOK(src) == turn \in {"idle", src}
MacroEnd(src, q) == mq' = q /\ turn' = IF q = <<>> THEN "idle" ELSE src
MicroEnd(q) == mq' = q /\ turn' = IF q = <<>> THEN "idle" ELSE "drain"
Running(pc) == mq # <<>> /\ tasks[Head(mq)].pc = pc /\ tasks[Head(mq)].hops = 0

(* DocumentManager.loadDocument up to its first await: a registry hit      *)
(* resolves at once, a miss starts the store fetch                         *)
LoadStart(t, docId) ==
    IF documents[docId] # 0
    THEN [t EXCEPT !.pc = "loaded", !.st = documents[docId]]
    ELSE [t EXCEPT !.pc = "fetching"]

FreshState(doc) ==
    [content |-> doc.content, version |-> doc.version, pendingOps |-> <<>>,
     lastSaveTime |-> now, opsSinceLastSave |-> 0]

----------------------------------------------------------------------------
(* Inputs *)

InsertOps == {[NoOp EXCEPT !.type = "insert", !.position = p, !.text = t] :
                 p \in 0..MaxPos, t \in Texts}
DeleteOps == {[NoOp EXCEPT !.type = "delete", !.position = p, !.length = 1] :
                 p \in 0..MaxPos}

(* what a session may put in an APPLY_OP frame: any shape and base version *)
(* under its own user id, and one frame claiming another user's id         *)
OpInputs(c) ==
    {[o EXCEPT !.opId = nextOpId, !.docId = clients[c].docId, !.userId = userOf(c),
               !.baseVersion = b] :
        o \in InsertOps \cup DeleteOps, b \in 0..MaxBase}
    \cup {[o EXCEPT !.opId = nextOpId, !.docId = clients[c].docId, !.userId = u] :
            o \in {x \in InsertOps : x.position = 0}, u \in Users \ {userOf(c)}}

----------------------------------------------------------------------------
(* Events *)

(* the inbound events so far, after the two joins of the initial state *)
Budget == Len(tasks) - Cardinality(Sessions) + Cardinality(Sessions \ registered) < MaxFrames

(* handleApplyOp handing the docId of the payload to applyOperation *)
HandleApplyOpByPayload(c, op) ==
    /\ MacroOK(c)
    /\ c \in registered
    /\ nextOpId' = nextOpId + 1
    /\ LET i == Len(tasks) + 1
           t == LoadStart(NewTask("APPLY", c, "start", op.docId, op), op.docId)
       IN IF clients[c].docId = NoDoc
          THEN /\ tasks' = Append(tasks, Finish(NewTask("APPLY", c, "start", NoDoc, op), "dropped"))
               /\ MacroEnd(c, mq)
          ELSE /\ tasks' = Append(tasks, t)
               /\ MacroEnd(c, IF t.pc = "loaded" THEN Append(mq, i) ELSE mq)
    /\ UNCHANGED <<ot, db, documents, heap, clients, registered, presence, expiry, rq, sent, now, applied>>

(* ws.on('message') -> handleMessage -> handleApplyOp -> applyOperation    *)
(* -> loadDocument, up to the first await                                  *)
HandleApplyOpStart(c, op) ==
    /\ MacroOK(c)
    /\ c \in registered
    /\ nextOpId' = nextOpId + 1
    /\ LET i == Len(tasks) + 1
           t == LoadStart(NewTask("APPLY", c, "start", clients[c].docId, op), clients[c].docId)
       IN IF clients[c].docId = NoDoc
          THEN /\ tasks' = Append(tasks, Finish(NewTask("APPLY", c, "start", NoDoc, op), "dropped"))
               /\ MacroEnd(c, mq)
          ELSE /\ tasks' = Append(tasks, t)
               /\ MacroEnd(c, IF t.pc = "loaded" THEN Append(mq, i) ELSE mq)
    /\ UNCHANGED <<ot, db, documents, heap, clients, registered, presence, expiry, rq, sent, now, applied>>

ReceiveApplyOp(c, op) == NumTasks("APPLY") < MaxApply /\ HandleApplyOpStart(c, op)

RecvApplyOp(c, op) == Budget /\ ReceiveApplyOp(c, op) /\ UNCHANGED <<editor, rd>>

(* ws.on('message') -> handleMessage -> handleJoinDocument up to its first *)
(* await: presence.removeUser when the session is joined, else the join    *)
(* half up to presence.addUser                                             *)
HandleJoinDocumentStart(c, docId) ==
    /\ MacroOK(c)
    /\ c \in registered
    /\ LET i == Len(tasks) + 1
       IN IF clients[c].docId # NoDoc
          THEN /\ presence' = HDel(presence, clients[c].docId, clients[c].userId)
               /\ expiry' = Touch(expiry, presence', clients[c].docId)
               /\ tasks' = Append(tasks, [NewTask("JOIN", c, "leaving", docId, NoOp)
                                             EXCEPT !.left = clients[c].docId])
               /\ UNCHANGED clients
          ELSE /\ clients' = [clients EXCEPT ![c].docId = docId]
               /\ presence' = HSet(presence, docId, clients[c].userId, 0)
               /\ expiry' = Touch(expiry, presence', docId)
               /\ tasks' = Append(tasks, NewTask("JOIN", c, "adding", docId, NoOp))
    /\ rq' = Append(rq, Len(tasks) + 1)
    /\ MacroEnd(c, mq)
    /\ UNCHANGED <<ot, db, documents, heap, registered, sent, now, applied, nextOpId, editor, rd>>

RecvJoinDocument(c, docId) ==
    /\ Budget
    /\ NumTasks("JOIN") < MaxJoin + Cardinality(Sessions)
    /\ HandleJoinDocumentStart(c, docId)

(* removeClient with the client looked up in the map only by name: the    *)
(* record of a removed session is found again                              *)
RemoveClientStale(c) ==
    /\ IF clients[c].docId # NoDoc
       THEN /\ presence' = HDel(presence, clients[c].docId, clients[c].userId)
            /\ expiry' = Touch(expiry, presence', clients[c].docId)
            /\ rq' = Append(rq, 0)
            /\ sent' = BroadcastToDocument(sent, registered, clients, clients[c].docId,
                                           UserLeft(clients[c].userId), c)
       ELSE UNCHANGED <<presence, expiry, rq, sent>>
    /\ registered' = registered \ {c}

(* ConnectionManager.removeClient; the removeUser it starts is not awaited *)
RemoveClientBody(c) ==
    /\ IF c \in registered /\ clients[c].docId # NoDoc
       THEN /\ presence' = HDel(presence, clients[c].docId, clients[c].userId)
            /\ expiry' = Touch(expiry, presence', clients[c].docId)
            /\ rq' = Append(rq, 0)
            /\ sent' = BroadcastToDocument(sent, registered, clients, clients[c].docId,
                                           UserLeft(clients[c].userId), c)
       ELSE UNCHANGED <<presence, expiry, rq, sent>>
    /\ registered' = registered \ {c}

(* ws.on('close') -> removeClient *)
RemoveClient(c) ==
    /\ Budget
    /\ MacroOK(c)
    /\ c \in registered
    /\ Cardinality(Sessions \ registered) < MaxClose
    /\ RemoveClientBody(c)
    /\ MacroEnd(c, mq)
    /\ UNCHANGED <<ot, db, documents, heap, clients, tasks, now, applied, nextOpId, editor, rd>>

(* the next reply of the presence store arrives: the PresenceManager       *)
(* method resumes, and after it the handler that awaits it                 *)
RedisReply ==
    /\ MacroOK("redis")
    /\ rq # <<>>
    /\ rq' = Tail(rq)
    /\ LET i == Head(rq)
       IN IF i = 0
          THEN /\ UNCHANGED tasks
               /\ MacroEnd("redis", mq)
          ELSE /\ tasks' = [tasks EXCEPT ![i] =
                     IF @.pc = "leaving" THEN [@ EXCEPT !.pc = "left", !.hops = 1]
                     ELSE IF @.pc = "adding" THEN [@ EXCEPT !.pc = "added"]
                     ELSE IF @.pc = "expiring" THEN [@ EXCEPT !.pc = "expired", !.hops = 1]
                     ELSE [@ EXCEPT !.pc = "gotCursors", !.hops = 1]]
               /\ MacroEnd("redis", Append(mq, i))
    /\ UNCHANGED <<ot, db, documents, heap, clients, registered, presence, expiry, sent, now,
                   applied, nextOpId, editor, rd>>

(* DocumentModel.findById resolves with the stored record *)
FetchResolve(i) ==
    /\ MacroOK("mongo")
    /\ i \in TaskIds
    /\ tasks[i].pc = "fetching"
    /\ tasks' = [tasks EXCEPT ![i] =
                    IF db[tasks[i].docId] = NoRecord
                    THEN [@ EXCEPT !.pc = "throwing", !.err = "Document not found"]
                    ELSE [@ EXCEPT !.pc = "fetched", !.snap = db[tasks[i].docId]]]
    /\ MacroEnd("mongo", Append(mq, i))
    /\ UNCHANGED <<ot, db, documents, heap, clients, registered, presence, expiry, rq, sent, now,
                   applied, nextOpId, editor, rd>>

(* DocumentModel.findByIdAndUpdate resolves: the record is written *)
PersistResolve(i) ==
    /\ MacroOK("mongo")
    /\ i \in TaskIds
    /\ tasks[i].pc = "persisting"
    /\ db' = [db EXCEPT ![tasks[i].docId] = tasks[i].snap]
    /\ tasks' = [tasks EXCEPT ![i] = [@ EXCEPT !.pc = "persisted"]]
    /\ MacroEnd("mongo", Append(mq, i))
    /\ UNCHANGED <<ot, documents, heap, clients, registered, presence, expiry, rq, sent, now,
                   applied, nextOpId, editor, rd>>

(* the store write rejects and the bookkeeping of persistDocument runs all *)
(* the same                                                                *)
PersistRejectResets(i) ==
    /\ MacroOK("mongo")
    /\ i \in TaskIds
    /\ tasks[i].pc = "persisting"
    /\ heap' = [heap EXCEPT ![tasks[i].pst] =
                    [@ EXCEPT !.lastSaveTime = now, !.opsSinceLastSave = 0]]
    /\ tasks' = [tasks EXCEPT ![i] = [@ EXCEPT !.pc = "throwing", !.hops = 3,
                                               !.err = "store write failed"]]
    /\ MacroEnd("mongo", Append(mq, i))
    /\ UNCHANGED <<ot, db, documents, clients, registered, presence, expiry, rq, sent, now,
                   applied, nextOpId, editor, rd>>

(* DocumentModel.findByIdAndUpdate rejects: the error passes through       *)
(* persistDocument, applyOperation and handleApplyOp to handleMessage      *)
PersistReject(i) ==
    /\ MacroOK("mongo")
    /\ i \in TaskIds
    /\ tasks[i].pc = "persisting"
    /\ tasks' = [tasks EXCEPT ![i] = [@ EXCEPT !.pc = "throwing", !.hops = 3,
                                               !.err = "store write failed"]]
    /\ MacroEnd("mongo", Append(mq, i))
    /\ UNCHANGED <<ot, db, documents, heap, clients, registered, presence, expiry, rq, sent, now,
                   applied, nextOpId, editor, rd>>

(* wall clock *)
Tick ==
    /\ turn = "idle"
    /\ now < MaxTime
    /\ Elapse(now + SAVE_INTERVAL)
    /\ UNCHANGED <<ot, db, documents, heap, clients, registered, tasks, mq, rq,
                   turn, sent, applied, nextOpId, editor, rd>>

----------------------------------------------------------------------------
(* Continuations, run from the head of the microtask queue *)

(* a promise settles through one more async function before code of the    *)
(* handler runs                                                            *)
Hop ==
    /\ mq # <<>>
    /\ tasks[Head(mq)].hops > 0
    /\ tasks' = [tasks EXCEPT ![Head(mq)].hops = @ - 1]
    /\ MicroEnd(Append(Tail(mq), Head(mq)))
    /\ UNCHANGED <<ot, db, documents, heap, clients, registered, presence, expiry, rq, sent, now,
                   applied, nextOpId, editor, rd>>

(* loadDocument after the store fetch: a fresh state replaces whatever the *)
(* registry holds under docId                                              *)
LoadDocumentSet ==
    /\ Running("fetched")
    /\ LET i == Head(mq)
           t == tasks[i]
       IN /\ heap' = Append(heap, FreshState(t.snap))
          /\ documents' = [documents EXCEPT ![t.docId] = Len(heap) + 1]
          /\ tasks' = [tasks EXCEPT ![i] = [t EXCEPT !.pc = "loaded", !.st = Len(heap) + 1,
                                                     !.snap = NoSnap]]
          /\ MicroEnd(Append(Tail(mq), i))
    /\ UNCHANGED <<ot, db, clients, registered, presence, expiry, rq, sent, now, applied, nextOpId, editor, rd>>

OpsToTransform(state, op) ==
    SelectSeq(state.pendingOps, LAMBDA pendingOp : pendingOp.baseVersion >= op.baseVersion)

RECURSIVE TransformAll(_, _)
TransformAll(op, ops) ==
    IF ops = <<>> THEN op
    ELSE TransformAll(Transform(op, Head(ops)), Tail(ops))

(* history: the opIds of the operations op is transformed against *)
Against(state, op) ==
    IF op.baseVersion < state.version
    THEN [n \in 1..Len(OpsToTransform(state, op)) |-> OpsToTransform(state, op)[n].opId]
    ELSE <<>>

TransformedOp(state, op) ==
    IF op.baseVersion < state.version
    THEN TransformAll(op, OpsToTransform(state, op))
    ELSE op

NeedsPersist(state) ==
    \/ now - state.lastSaveTime >= SAVE_INTERVAL
    \/ state.opsSinceLastSave >= SAVE_OP_THRESHOLD

(* the state after applyOperation's four assignments *)
AppliedState(state, top) ==
    [state EXCEPT !.content = Apply(state.content, top),
                  !.version = state.version + 1,
                  !.pendingOps = Append(state.pendingOps, top),
                  !.opsSinceLastSave = state.opsSinceLastSave + 1]

(* applyOperation from its resumption after loadDocument to its next await *)
(* (the store write persistDocument starts) or to its return               *)
ApplyOperation ==
    /\ Running("loaded")
    /\ tasks[Head(mq)].kind = "APPLY"
    /\ LET i == Head(mq)
           t == tasks[i]
           state == heap[t.st]
           top == TransformedOp(state, t.op)
           state2 == AppliedState(state, top)
           heap2 == [heap EXCEPT ![t.st] = state2]
           cur == heap2[documents[t.docId]]
       IN IF ~Validate(state.content, t.op)
          THEN /\ tasks' = [tasks EXCEPT ![i] = [t EXCEPT !.pc = "throwing", !.hops = 1,
                                                          !.err = "Invalid operation"]]
               /\ MicroEnd(Append(Tail(mq), i))
               /\ UNCHANGED <<heap, applied>>
          ELSE /\ heap' = heap2
               /\ applied' = Append(applied, [docId |-> t.docId, st |-> t.st, cid |-> t.cid,
                                              op |-> top, version |-> state2.version,
                                              before |-> state.content,
                                              tail |-> Len(state.pendingOps),
                                              against |-> Against(state, t.op)])
               /\ IF NeedsPersist(state2)
                  THEN /\ tasks' = [tasks EXCEPT ![i] =
                              [t EXCEPT !.pc = "persisting", !.top = top,
                                        !.pst = documents[t.docId],
                                        !.snap = [content |-> cur.content,
                                                  version |-> cur.version]]]
                       /\ MicroEnd(Tail(mq))
                  ELSE /\ tasks' = [tasks EXCEPT ![i] =
                              [t EXCEPT !.pc = "returning", !.top = top,
                                        !.newVersion = state2.version]]
                       /\ MicroEnd(Append(Tail(mq), i))
    /\ UNCHANGED <<ot, db, documents, clients, registered, presence, expiry, rq, sent, now, nextOpId, editor, rd>>

(* persistDocument after the store write *)
PersistDone ==
    /\ Running("persisted")
    /\ LET i == Head(mq)
           t == tasks[i]
       IN /\ heap' = [heap EXCEPT ![t.pst] =
                        [@ EXCEPT !.lastSaveTime = now, !.opsSinceLastSave = 0,
                                  !.pendingOps = LastK(@, TAIL_KEEP)]]
          /\ tasks' = [tasks EXCEPT ![i] = [t EXCEPT !.pc = "afterPersist", !.snap = NoSnap]]
          /\ MicroEnd(Append(Tail(mq), i))
    /\ UNCHANGED <<ot, db, documents, clients, registered, presence, expiry, rq, sent, now, applied,
                   nextOpId, editor, rd>>

(* applyOperation's return statement after persistDocument *)
ApplyReturn ==
    /\ Running("afterPersist")
    /\ LET i == Head(mq)
           t == tasks[i]
       IN /\ tasks' = [tasks EXCEPT ![i] = [t EXCEPT !.pc = "returning",
                                                     !.newVersion = heap[t.st].version]]
          /\ MicroEnd(Append(Tail(mq), i))
    /\ UNCHANGED <<ot, db, documents, heap, clients, registered, presence, expiry, rq, sent, now,
                   applied, nextOpId, editor, rd>>

(* handleApplyOp after applyOperation resolved *)
HandleApplyOpAck ==
    /\ Running("returning")
    /\ LET i == Head(mq)
           t == tasks[i]
           s1 == SendToClient(sent, registered, t.cid, AckOp(t.op.opId, t.newVersion))
       IN /\ sent' = BroadcastToDocument(s1, registered, clients, clients[t.cid].docId,
                                         BroadcastOp(t.top), t.cid)
          /\ tasks' = [tasks EXCEPT ![i] = [Finish(t, "ack") EXCEPT !.members = JoinedTo(t.docId)]]
          /\ MicroEnd(Tail(mq))
    /\ UNCHANGED <<ot, db, documents, heap, clients, registered, presence, expiry, rq, now, applied,
                   nextOpId, editor, rd>>

(* handleMessage's catch *)
HandleMessageCatch ==
    /\ Running("throwing")
    /\ LET i == Head(mq)
           t == tasks[i]
       IN /\ sent' = SendToClient(sent, registered, t.cid, ErrorMsg(t.err))
          /\ tasks' = [tasks EXCEPT ![i] = Finish(t, "error")]
          /\ MicroEnd(Tail(mq))
    /\ UNCHANGED <<ot, db, documents, heap, clients, registered, presence, expiry, rq, now, applied,
                   nextOpId, editor, rd>>

(* handleJoinDocument after presence.removeUser: USER_LEFT to the document *)
(* the client object names now, then the join half up to presence.addUser  *)
LeaveContinue ==
    /\ Running("left")
    /\ LET i == Head(mq)
           t == tasks[i]
       IN /\ sent' = BroadcastToDocument(sent, registered, clients, clients[t.cid].docId,
                                         UserLeft(clients[t.cid].userId), t.cid)
          /\ clients' = [clients EXCEPT ![t.cid].docId = t.docId]
          /\ presence' = HSet(presence, t.docId, clients[t.cid].userId, 0)
          /\ expiry' = Touch(expiry, presence', t.docId)
          /\ rq' = Append(rq, i)
          /\ tasks' = [tasks EXCEPT ![i] = [t EXCEPT !.pc = "adding"]]
          /\ MicroEnd(Tail(mq))
    /\ UNCHANGED <<ot, db, documents, heap, registered, now, applied, nextOpId, editor, rd>>

(* presence.addUser after hset, without the expire taking effect *)
AddUserNoExpire ==
    /\ Running("added")
    /\ rq' = Append(rq, Head(mq))
    /\ tasks' = [tasks EXCEPT ![Head(mq)].pc = "expiring"]
    /\ MicroEnd(Tail(mq))
    /\ UNCHANGED <<ot, db, documents, heap, clients, registered, presence, expiry, sent, now,
                   applied, nextOpId, editor, rd>>

(* presence.addUser after hset: expire *)
AddUserExpire ==
    /\ Running("added")
    /\ rq' = Append(rq, Head(mq))
    /\ expiry' = SetExpire(expiry, presence, tasks[Head(mq)].docId)
    /\ tasks' = [tasks EXCEPT ![Head(mq)].pc = "expiring"]
    /\ MicroEnd(Tail(mq))
    /\ UNCHANGED <<ot, db, documents, heap, clients, registered, presence, sent, now, applied,
                   nextOpId, editor, rd>>

(* handleJoinDocument after presence.addUser: getDocument -> loadDocument  *)
(* up to its await                                                         *)
JoinLoad ==
    /\ Running("expired")
    /\ tasks[Head(mq)].kind = "JOIN"
    /\ LET i == Head(mq)
           t == LoadStart(tasks[i], tasks[i].docId)
       IN /\ tasks' = [tasks EXCEPT ![i] = t]
          /\ MicroEnd(IF t.pc = "loaded" THEN Append(Tail(mq), i) ELSE Tail(mq))
    /\ UNCHANGED <<ot, db, documents, heap, clients, registered, presence, expiry, rq, sent, now,
                   applied, nextOpId, editor, rd>>

(* getDocument after loadDocument: the snapshot of content and version *)
GetDocument ==
    /\ Running("loaded")
    /\ tasks[Head(mq)].kind = "JOIN"
    /\ LET i == Head(mq)
           state == heap[tasks[i].st]
       IN /\ tasks' = [tasks EXCEPT ![i] =
                          [@ EXCEPT !.pc = "snapped",
                                    !.snap = [content |-> state.content,
                                              version |-> state.version]]]
          /\ MicroEnd(Append(Tail(mq), i))
    /\ UNCHANGED <<ot, db, documents, heap, clients, registered, presence, expiry, rq, sent, now,
                   applied, nextOpId, editor, rd>>

(* handleJoinDocument after getDocument: presence.getCursors sends hgetall *)
JoinGetCursors ==
    /\ Running("snapped")
    /\ LET i == Head(mq)
       IN /\ tasks' = [tasks EXCEPT ![i] =
                          [@ EXCEPT !.pc = "cursors",
                                    !.cursors = GetCursors(presence, tasks[i].docId)]]
          /\ rq' = Append(rq, i)
          /\ MicroEnd(Tail(mq))
    /\ UNCHANGED <<ot, db, documents, heap, clients, registered, presence, expiry, sent, now, applied,
                   nextOpId, editor, rd>>

(* handleJoinDocument after getCursors: SYNC_STATE to the origin,          *)
(* USER_JOINED to the other sessions of the document                       *)
SendSyncState ==
    /\ Running("gotCursors")
    /\ LET i == Head(mq)
           t == tasks[i]
           s1 == SendToClient(sent, registered, t.cid,
                              SyncState(t.snap.content, t.snap.version, t.cursors))
       IN /\ sent' = BroadcastToDocument(s1, registered, clients, t.docId,
                                         UserJoined(clients[t.cid].userId), t.cid)
          /\ tasks' = [tasks EXCEPT ![i] = Finish(t, "sync")]
          /\ MicroEnd(Tail(mq))
    /\ UNCHANGED <<ot, db, documents, heap, clients, registered, presence, expiry, rq, now, applied,
                   nextOpId, editor, rd>>

----------------------------------------------------------------------------
(* The state the runs start in: the store holds the created documents,    *)
(* s1 and then s2 have connected and joined d1 at time 0 (two completed    *)
(* JOIN_DOCUMENT handlers, d1 loaded by the first), d2 was never referenced *)

JoinedTask(c, cursors) ==
    [[kind |-> "JOIN", cid |-> c, pc |-> "done", hops |-> 0, docId |-> "d1", left |-> NoDoc,
      op |-> NoOp, st |-> 0, top |-> NoOp, newVersion |-> 0, snap |-> NoSnap,
      cursors |-> cursors, pst |-> 0, err |-> "none", outcome |-> "sync",
      members |-> {}, at |-> 0] EXCEPT
        !.st = 1, !.snap = [content |-> Seed, version |-> 0], !.cursors = cursors,
        !.at = 0]

NoRun == [pc |-> "none", content |-> <<>>, op1 |-> NoOp, op2 |-> NoOp,
          transformed1 |-> NoOp, transformed2 |-> NoOp, result12 |-> <<>>, result21 |-> <<>>,
          valid |-> FALSE, result |-> <<>>]

InitServer ==
    /\ db = [d \in Docs |-> [content |-> Seed, version |-> 0]]
    /\ documents = [d \in Docs |-> IF d = "d1" THEN 1 ELSE 0]
    /\ heap = <<[content |-> Seed, version |-> 0, pendingOps |-> <<>>,
                 lastSaveTime |-> 0, opsSinceLastSave |-> 0]>>
    /\ clients = [c \in Sessions |-> [userId |-> userOf(c), docId |-> "d1"]]
    /\ registered = Sessions
    /\ presence = [d \in Docs |-> [u \in Users |-> IF d = "d1" THEN 0 ELSE NoCursor]]
    /\ expiry = JoinedExpiry(presence)
    /\ tasks = <<JoinedTask("s1", [u \in Users |-> IF u = "u1" THEN 0 ELSE NoCursor]),
                 JoinedTask("s2", [u \in Users |-> 0])>>
    /\ mq = <<>>
    /\ rq = <<>>
    /\ turn = "idle"
    /\ sent = [c \in Sessions |->
                 IF c = "s1"
                 THEN <<SyncState(Seed, 0, [u \in Users |-> IF u = "u1" THEN 0 ELSE NoCursor]),
                        UserJoined("u2")>>
                 ELSE <<SyncState(Seed, 0, [u \in Users |-> 0])>>]
    /\ now = 0
    /\ applied = <<>>
    /\ nextOpId = 1
    /\ editor = [c \in Sessions |->
                   [docId |-> "d1", content |-> Seed, serverVersion |-> 0,
                    localVersion |-> 0, pendingOps |-> <<>>,
                    cursors |-> sent[c][1].cursors,
                    collaborators |-> IF c = "s1" THEN <<"u2">> ELSE <<>>]]
    /\ rd = [c \in Sessions |-> Len(sent[c])]

Init == InitServer /\ ot = NoRun

----------------------------------------------------------------------------
(* The editor page of a session's browser *)

(* applyRemoteOp in useWebSocket.ts and the optimistic update in           *)
(* handleOperation share this text                                         *)
ApplyLocal(content, op) ==
    IF op.type = "insert" /\ Len(op.text) > 0
    THEN Slice(content, 0, op.position) \o op.text \o SliceFrom(content, op.position)
    ELSE IF op.type = "delete" /\ op.length # 0
         THEN Slice(content, 0, op.position)
              \o SliceFrom(content, op.position + op.length)
         ELSE content

(* editorStore.setContent *)
SetContent(e, content) == [e EXCEPT !.content = content, !.localVersion = @ + 1]

(* the edits CodeEditor.handleChange can report on the current text *)
LocalEdits(c) ==
    LET e == editor[c]
    IN {[NoOp EXCEPT !.opId = nextOpId, !.docId = e.docId, !.userId = userOf(c),
                     !.baseVersion = e.serverVersion, !.type = "insert",
                     !.position = p, !.text = t] :
            p \in 0..Len(e.content), t \in Texts}
       \cup {[NoOp EXCEPT !.opId = nextOpId, !.docId = e.docId, !.userId = userOf(c),
                           !.baseVersion = e.serverVersion, !.type = "delete",
                           !.position = p, !.length = 1] :
               p \in 0..(Len(e.content) - 1)}

(* CodeEditor.handleChange -> handleOperation -> sendMessage; the frame    *)
(* reaches the server                                                      *)
HandleOperation(c, op) ==
    /\ editor' = [editor EXCEPT ![c] =
                     [SetContent(@, ApplyLocal(@.content, op)) EXCEPT
                         !.pendingOps = Append(@, op.opId)]]
    /\ ReceiveApplyOp(c, op)
    /\ UNCHANGED rd

RemoveId(seq, id) == SelectSeq(seq, LAMBDA x : x # id)

(* useWebSocket handleMessage on the next frame of the socket *)
ClientHandleMessage(c) ==
    /\ rd[c] < Len(sent[c])
    /\ rd' = [rd EXCEPT ![c] = @ + 1]
    /\ LET message == sent[c][rd[c] + 1]
           e == editor[c]
       IN editor' = [editor EXCEPT ![c] =
            IF message.type = "SYNC_STATE"
            THEN [e EXCEPT !.content = message.content, !.serverVersion = message.version,
                           !.localVersion = message.version, !.cursors = message.cursors,
                           !.pendingOps = <<>>]
            ELSE IF message.type = "ACK_OP"
            THEN [e EXCEPT !.serverVersion = message.newVersion,
                           !.pendingOps = RemoveId(@, message.opId)]
            ELSE IF message.type = "BROADCAST_OP"
            THEN SetContent(e, ApplyLocal(e.content, message.op))
            ELSE IF message.type = "USER_JOINED"
            THEN [e EXCEPT !.collaborators = Append(@, message.userId)]
            ELSE IF message.type = "USER_LEFT"
            THEN [e EXCEPT !.collaborators = RemoveId(@, message.userId)]
            ELSE e]
    /\ UNCHANGED <<ot, db, documents, heap, clients, registered, presence, expiry, tasks, mq, rq,
                   turn, sent, now, applied, nextOpId>>

Next ==
    \/ \E c \in Sessions : \E op \in OpInputs(c) : RecvApplyOp(c, op)
    \/ \E c \in Sessions, d \in Docs : RecvJoinDocument(c, d)
    \/ \E c \in Sessions : RemoveClient(c)
    \/ RedisReply
    \/ \E i \in TaskIds : FetchResolve(i)
    \/ \E i \in TaskIds : PersistResolve(i)
    \/ \E i \in TaskIds : PersistReject(i)
    \/ Tick
    \/ Hop
    \/ LoadDocumentSet
    \/ ApplyOperation
    \/ PersistDone
    \/ ApplyReturn
    \/ HandleApplyOpAck
    \/ HandleMessageCatch
    \/ LeaveContinue
    \/ AddUserExpire
    \/ JoinLoad
    \/ GetDocument
    \/ JoinGetCursors
    \/ SendSyncState

Spec == Init /\ [][Next]_vars

(* the editors of the two sessions at work on d1, no join, no disconnect *)
NextEdit ==
    \/ \E c \in Sessions : \E op \in LocalEdits(c) : HandleOperation(c, op)
    \/ \E c \in Sessions : ClientHandleMessage(c)
    \/ \E i \in TaskIds : PersistResolve(i)
    \/ \E i \in TaskIds : PersistReject(i)
    \/ Tick
    \/ Hop
    \/ ApplyOperation
    \/ PersistDone
    \/ ApplyReturn
    \/ HandleApplyOpAck
    \/ HandleMessageCatch

SpecEdit == Init /\ [][NextEdit]_vars

----------------------------------------------------------------------------
(* A document with a history.  The store held d1 at version v0 when s1 and *)
(* s2 joined it, and s1 has since had k inserts of "x" at position 0       *)
(* applied, each formed on the version before it, all within the save      *)
(* interval, so that no write-back has run.  tasks, applied and sent list  *)
(* the joins only: the k finished APPLY_OP handlers are not recorded.      *)

HistoryLens == {0, SAVE_OP_THRESHOLD - 2, SAVE_OP_THRESHOLD - 1}

HistoryOp(v0, j) ==
    [NoOp EXCEPT !.opId = j, !.docId = "d1", !.userId = "u1", !.baseVersion = v0 + j - 1,
                 !.type = "insert", !.position = 0, !.text = <<"x">>]

HistoryContent(k) == [j \in 1..k |-> "x"] \o Seed

InitTail ==
    \E v0 \in 0..MaxStored, k \in HistoryLens :
        /\ db = [d \in Docs |-> [content |-> Seed, version |-> IF d = "d1" THEN v0 ELSE 0]]
        /\ documents = [d \in Docs |-> IF d = "d1" THEN 1 ELSE 0]
        /\ heap = <<[content |-> HistoryContent(k), version |-> v0 + k,
                     pendingOps |-> [j \in 1..k |-> HistoryOp(v0, j)],
                     lastSaveTime |-> 0, opsSinceLastSave |-> k]>>
        /\ clients = [c \in Sessions |-> [userId |-> userOf(c), docId |-> "d1"]]
        /\ registered = Sessions
        /\ presence = [d \in Docs |-> [u \in Users |-> IF d = "d1" THEN 0 ELSE NoCursor]]
        /\ expiry = JoinedExpiry(presence)
        /\ tasks = <<[JoinedTask("s1", [u \in Users |-> IF u = "u1" THEN 0 ELSE NoCursor])
                         EXCEPT !.snap.version = v0],
                     [JoinedTask("s2", [u \in Users |-> 0]) EXCEPT !.snap.version = v0]>>
        /\ mq = <<>>
        /\ rq = <<>>
        /\ turn = "idle"
        /\ sent = [c \in Sessions |->
                     IF c = "s1"
                     THEN <<SyncState(Seed, v0, [u \in Users |-> IF u = "u1" THEN 0 ELSE NoCursor]),
                            UserJoined("u2")>>
                     ELSE <<SyncState(Seed, v0, [u \in Users |-> 0])>>]
        /\ now = 0
        /\ applied = <<>>
        /\ nextOpId = k + 1
        /\ editor = [c \in Sessions |->
                       [docId |-> "d1", content |-> HistoryContent(k),
                        serverVersion |-> IF c = "s1" THEN v0 + k ELSE v0,
                        localVersion |-> v0 + k, pendingOps |-> <<>>,
                        cursors |-> sent[c][1].cursors,
                        collaborators |-> IF c = "s1" THEN <<"u2">> ELSE <<>>]]
        /\ rd = [c \in Sessions |-> Len(sent[c])]
        /\ ot = NoRun

(* operations on the loaded document: no join, no disconnect *)
NextTail ==
    \/ \E c \in Sessions : \E op \in OpInputs(c) : RecvApplyOp(c, op)
    \/ \E i \in TaskIds : PersistResolve(i)
    \/ \E i \in TaskIds : PersistReject(i)
    \/ Tick
    \/ Hop
    \/ ApplyOperation
    \/ PersistDone
    \/ ApplyReturn
    \/ HandleApplyOpAck
    \/ HandleMessageCatch

SpecTail == InitTail /\ [][NextTail]_vars

----------------------------------------------------------------------------
(* Two documents in use: s1 has connected and joined d1, s2 has connected  *)
(* and joined d2, both at time 0                                           *)

OwnCursor(c) == [u \in Users |-> IF u = userOf(c) THEN 0 ELSE NoCursor]
DocOf(c) == IF c = "s1" THEN "d1" ELSE "d2"

InitApart ==
    /\ db = [d \in Docs |-> [content |-> Seed, version |-> 0]]
    /\ documents = [d \in Docs |-> IF d = "d1" THEN 1 ELSE 2]
    /\ heap = [n \in 1..2 |-> [content |-> Seed, version |-> 0, pendingOps |-> <<>>,
                               lastSaveTime |-> 0, opsSinceLastSave |-> 0]]
    /\ clients = [c \in Sessions |-> [userId |-> userOf(c), docId |-> DocOf(c)]]
    /\ registered = Sessions
    /\ presence = [d \in Docs |-> [u \in Users |->
                      IF \E c \in Sessions : DocOf(c) = d /\ userOf(c) = u
                      THEN 0 ELSE NoCursor]]
    /\ expiry = JoinedExpiry(presence)
    /\ tasks = <<[JoinedTask("s1", OwnCursor("s1")) EXCEPT !.docId = "d1", !.st = 1],
                 [JoinedTask("s2", OwnCursor("s2")) EXCEPT !.docId = "d2", !.st = 2]>>
    /\ mq = <<>>
    /\ rq = <<>>
    /\ turn = "idle"
    /\ sent = [c \in Sessions |-> <<SyncState(Seed, 0, OwnCursor(c))>>]
    /\ now = 0
    /\ applied = <<>>
    /\ nextOpId = 1
    /\ editor = [c \in Sessions |->
                   [docId |-> DocOf(c), content |-> Seed, serverVersion |-> 0,
                    localVersion |-> 0, pendingOps |-> <<>>,
                    cursors |-> OwnCursor(c), collaborators |-> <<>>]]
    /\ rd = [c \in Sessions |-> 1]
    /\ ot = NoRun

(* both documents are in the registry: no load ever goes to the store *)
NextApart ==
    \/ \E c \in Sessions : \E op \in OpInputs(c) : RecvApplyOp(c, op)
    \/ \E c \in Sessions, d \in Docs : RecvJoinDocument(c, d)
    \/ \E c \in Sessions : RemoveClient(c)
    \/ RedisReply
    \/ \E i \in TaskIds : PersistResolve(i)
    \/ \E i \in TaskIds : PersistReject(i)
    \/ Tick
    \/ Hop
    \/ ApplyOperation
    \/ PersistDone
    \/ ApplyReturn
    \/ HandleApplyOpAck
    \/ HandleMessageCatch
    \/ LeaveContinue
    \/ AddUserExpire
    \/ JoinLoad
    \/ GetDocument
    \/ JoinGetCursors
    \/ SendSyncState

SpecApart == InitApart /\ [][NextApart]_vars

----------------------------------------------------------------------------
(* applyOperation on its own: a few operations in a row on the loaded      *)
(* document d1, inside the save interval, from every position and base     *)
(* version of a small range                                                *)

SeqInputs(c) ==
    {[NoOp EXCEPT !.opId = nextOpId, !.docId = clients[c].docId, !.userId = userOf(c),
                  !.baseVersion = b, !.type = "insert", !.position = p, !.text = t] :
        p \in 0..MaxAt, t \in Texts, b \in 0..MaxSeqBase}
    \cup {[NoOp EXCEPT !.opId = nextOpId, !.docId = clients[c].docId, !.userId = userOf(c),
                       !.baseVersion = b, !.type = "delete", !.position = p, !.length = 1] :
            p \in 0..MaxAt, b \in 0..MaxSeqBase}

SubmitOp(c, op) ==
    /\ NumTasks("APPLY") < MaxOps
    /\ HandleApplyOpStart(c, op)
    /\ UNCHANGED <<editor, rd>>

NextSeq ==
    \/ \E op \in SeqInputs("s1") : SubmitOp("s1", op)
    \/ Hop
    \/ ApplyOperation
    \/ HandleApplyOpAck
    \/ HandleMessageCatch

SpecSeq == Init /\ [][NextSeq]_vars

----------------------------------------------------------------------------
(* The OTEngine functions called directly, as engine.test.ts does: two     *)
(* operations formed on the same content, each transformed against the     *)
(* other and applied after it                                              *)

Letters == <<"a", "b", "c", "d", "e", "f">>
OTContents == {SubSeq(Letters, 1, n) : n \in 0..MaxLen}
OTTexts == {<<"x">>, <<"y", "z">>}

OTOps ==
    {[NoOp EXCEPT !.opId = 1, !.docId = "d1", !.userId = "u1", !.type = "insert",
                  !.position = p, !.text = t] : p \in 0..MaxLen, t \in OTTexts}
    \cup {[NoOp EXCEPT !.opId = 1, !.docId = "d1", !.userId = "u1", !.type = "delete",
                       !.position = p, !.length = l] : p \in 0..MaxLen, l \in 1..MaxDel}

InitOT ==
    /\ InitServer
    /\ \E content \in OTContents, op1 \in OTOps, op2 \in OTOps :
          ot = [NoRun EXCEPT !.pc = "start", !.content = content, !.op1 = op1,
                             !.op2 = [op2 EXCEPT !.opId = 2, !.userId = "u2"]]

RunTransform ==
    /\ ot.pc = "start"
    /\ ot' = [ot EXCEPT !.pc = "transformed",
                        !.transformed1 = Transform(ot.op1, ot.op2),
                        !.transformed2 = Transform(ot.op2, ot.op1)]
    /\ UNCHANGED <<db, documents, heap, clients, registered, presence, expiry, tasks, mq, rq,
                   turn, sent, now, applied, nextOpId, editor, rd>>

RunApply ==
    /\ ot.pc = "transformed"
    /\ ot' = [ot EXCEPT !.pc = "applied",
                        !.result12 = Apply(Apply(ot.content, ot.op1), ot.transformed2),
                        !.result21 = Apply(Apply(ot.content, ot.op2), ot.transformed1)]
    /\ UNCHANGED <<db, documents, heap, clients, registered, presence, expiry, tasks, mq, rq,
                   turn, sent, now, applied, nextOpId, editor, rd>>

NextOT ==
    \/ RunTransform
    \/ RunApply

SpecOT == InitOT /\ [][NextOT]_vars

----------------------------------------------------------------------------
(* Frames that are not protocol messages.  ws.on('message') parses the     *)
(* text and hands the value to handleMessage without awaiting it: text     *)
(* that JSON.parse rejects reaches the catch of the listener; an object    *)
(* whose type is none of the three cases of handleMessage's switch falls   *)
(* through the switch; an APPLY_OP object without op goes through          *)
(* handleApplyOp to applyOperation with op undefined.  The frame is kept   *)
(* in tasks, its shape in op.type.                                         *)

FrameShapes == {"unparseable", "unknownType", "missingOp"}

RecvMalformed(c, shape) ==
    /\ Budget
    /\ MacroOK(c)
    /\ c \in registered
    /\ LET i == Len(tasks) + 1
           t == NewTask("MALFORMED", c, "start", clients[c].docId, [NoOp EXCEPT !.type = shape])
           l == LoadStart(t, clients[c].docId)
       IN  IF shape = "unparseable"
           THEN /\ tasks' = Append(tasks, Finish(t, "error"))
                /\ sent' = [sent EXCEPT ![c] = Append(@, ErrorMsg("Invalid message format"))]
                /\ MacroEnd(c, mq)
           ELSE IF shape = "unknownType" \/ clients[c].docId = NoDoc
                THEN /\ tasks' = Append(tasks, Finish(t, "ignored"))
                     /\ MacroEnd(c, mq)
                     /\ UNCHANGED sent
                ELSE /\ tasks' = Append(tasks, l)
                     /\ MacroEnd(c, IF l.pc = "loaded" THEN Append(mq, i) ELSE mq)
                     /\ UNCHANGED sent
    /\ UNCHANGED <<ot, db, documents, heap, clients, registered, presence, expiry, rq, now, applied,
                   nextOpId, editor, rd>>

(* applyOperation with op undefined, after loadDocument: validate reads    *)
(* op.position and throws a TypeError                                      *)
ApplyUndefined ==
    /\ Running("loaded")
    /\ tasks[Head(mq)].kind = "MALFORMED"
    /\ tasks' = [tasks EXCEPT ![Head(mq)] =
                    [@ EXCEPT !.pc = "throwing", !.hops = 1,
                              !.err = "Cannot read properties of undefined"]]
    /\ MicroEnd(Append(Tail(mq), Head(mq)))
    /\ UNCHANGED <<ot, db, documents, heap, clients, registered, presence, expiry, rq, sent, now,
                   applied, nextOpId, editor, rd>>

NextFrames ==
    \/ \E c \in Sessions, shape \in FrameShapes : RecvMalformed(c, shape)
    \/ \E c \in Sessions : \E op \in OpInputs(c) : RecvApplyOp(c, op)
    \/ \E c \in Sessions : RemoveClient(c)
    \/ RedisReply
    \/ Hop
    \/ ApplyOperation
    \/ ApplyUndefined
    \/ HandleApplyOpAck
    \/ HandleMessageCatch

SpecFrames == Init /\ [][NextFrames]_vars

(* The server left idle, the store available: every store write resolves,  *)
(* time passes, the interval timer of server.ts fires again and again.     *)
(* Frames are the only steps that need not happen.  The clock of the model *)
(* stops at MaxIdle: later times are not told apart.                       *)

(* the callback of setInterval is called, SAVE_CHECK_PERIOD after its last *)
(* call: it writes a log line                                              *)
PeriodicSaveCheck ==
    /\ turn = "idle"
    /\ Elapse(IF now < MaxIdle
              THEN (now \div SAVE_CHECK_PERIOD + 1) * SAVE_CHECK_PERIOD
              ELSE now)
    /\ turn' = "timer"
    /\ UNCHANGED <<ot, db, documents, heap, clients, registered, tasks, mq, rq,
                   sent, applied, nextOpId, editor, rd>>

(* the callback returns *)
PeriodicSaveReturn ==
    /\ turn = "timer"
    /\ turn' = "idle"
    /\ UNCHANGED <<ot, db, documents, heap, clients, registered, presence, expiry, tasks, mq,
                   rq, sent, now, applied, nextOpId, editor, rd>>

NextServing ==
    \/ \E i \in TaskIds : PersistResolve(i)
    \/ Tick
    \/ PeriodicSaveCheck
    \/ PeriodicSaveReturn
    \/ Hop
    \/ ApplyOperation
    \/ ApplyUndefined
    \/ PersistDone
    \/ ApplyReturn
    \/ HandleApplyOpAck
    \/ HandleMessageCatch

NextIdle ==
    \/ \E c \in Sessions : \E op \in OpInputs(c) : RecvApplyOp(c, op)
    \/ \E c \in Sessions, shape \in FrameShapes : RecvMalformed(c, shape)
    \/ NextServing

SpecIdle == Init /\ [][NextIdle]_vars /\ WF_vars(NextServing)

(* Presence over time: joins and disconnects, and stretches of             *)
(* PRESENCE_TTL seconds in which no frame arrives.  The presence store     *)
(* answers in milliseconds: by the end of such a stretch no command is     *)
(* unanswered.                                                             *)

PresenceTimeout ==
    /\ turn = "idle"
    /\ rq = <<>>
    /\ now < MaxQuiet
    /\ Elapse(now + PRESENCE_TTL * 1000)
    /\ UNCHANGED <<ot, db, documents, heap, clients, registered, tasks, mq, rq,
                   turn, sent, applied, nextOpId, editor, rd>>

NextPresence ==
    \/ \E c \in Sessions, d \in Docs : RecvJoinDocument(c, d)
    \/ \E c \in Sessions : RemoveClient(c)
    \/ RedisReply
    \/ \E i \in TaskIds : FetchResolve(i)
    \/ Tick
    \/ PresenceTimeout
    \/ Hop
    \/ LoadDocumentSet
    \/ LeaveContinue
    \/ AddUserExpire
    \/ JoinLoad
    \/ GetDocument
    \/ JoinGetCursors
    \/ SendSyncState

SpecPresence == Init /\ [][NextPresence]_vars

(* removeClient called for any session name, registered or not, a few      *)
(* times over, while a join may be in progress.  Each call is kept in      *)
(* tasks as a finished handler of kind CLOSE.                              *)

RemoveClientCall(c) ==
    /\ MacroOK(c)
    /\ NumTasks("CLOSE") < MaxCalls
    /\ RemoveClientBody(c)
    /\ tasks' = Append(tasks, Finish(NewTask("CLOSE", c, "start", clients[c].docId, NoOp),
                                     IF c \in registered THEN "removed" ELSE "unknown"))
    /\ MacroEnd(c, mq)
    /\ UNCHANGED <<ot, db, documents, heap, clients, now, applied, nextOpId, editor, rd>>

NextClose ==
    \/ \E c \in Sessions : RemoveClientCall(c)
    \/ \E c \in Sessions, d \in Docs : RecvJoinDocument(c, d)
    \/ RedisReply
    \/ \E i \in TaskIds : FetchResolve(i)
    \/ Hop
    \/ LoadDocumentSet
    \/ LeaveContinue
    \/ AddUserExpire
    \/ JoinLoad
    \/ GetDocument
    \/ JoinGetCursors
    \/ SendSyncState

SpecClose == Init /\ [][NextClose]_vars

(* Sessions that move from d1 to d2 while an operation on d1 is under way: *)
(* each session may send one JOIN_DOCUMENT d2, and up to MaxEdits          *)
(* insertions formed on version 0 arrive; the store answers every read     *)
(* and write, and every insertion is valid, so that no handler throws      *)

SwitchDocument(c) ==
    /\ clients[c].docId = "d1"
    /\ \A i \in TaskIds : tasks[i].kind = "JOIN" /\ tasks[i].cid = c => tasks[i].pc = "done"
    /\ HandleJoinDocumentStart(c, "d2")

EditInputs(c) ==
    {op \in OpInputs(c) : op.type = "insert" /\ op.userId = userOf(c) /\ op.baseVersion = 0}

EditDocument(c, op) ==
    /\ NumTasks("APPLY") < MaxEdits
    /\ HandleApplyOpStart(c, op)
    /\ UNCHANGED <<editor, rd>>

NextSwitch ==
    \/ \E c \in Sessions : SwitchDocument(c)
    \/ \E c \in Sessions : \E op \in EditInputs(c) : EditDocument(c, op)
    \/ RedisReply
    \/ \E i \in TaskIds : FetchResolve(i)
    \/ \E i \in TaskIds : PersistResolve(i)
    \/ Tick
    \/ Hop
    \/ LoadDocumentSet
    \/ ApplyOperation
    \/ PersistDone
    \/ ApplyReturn
    \/ HandleApplyOpAck
    \/ LeaveContinue
    \/ AddUserExpire
    \/ JoinLoad
    \/ GetDocument
    \/ JoinGetCursors
    \/ SendSyncState

SpecSwitch == Init /\ [][NextSwitch]_vars

(* Cursor movement.  handleCursorUpdate awaits presence.updateCursor       *)
(* (hset, then expire, as addUser) and then broadcasts to the document     *)
(* the client object names.  The position is kept in op.position.          *)

(* handleCursorUpdate refusing a position outside the content *)
RecvCursorUpdateChecked(c, position) ==
    /\ Budget
    /\ MacroOK(c)
    /\ c \in registered
    /\ LET i == Len(tasks) + 1
           t == NewTask("CURSOR", c, "adding", clients[c].docId,
                        [NoOp EXCEPT !.type = "cursor", !.position = position])
       IN  IF clients[c].docId = NoDoc
           THEN /\ tasks' = Append(tasks, Finish(t, "dropped"))
                /\ MacroEnd(c, mq)
                /\ UNCHANGED <<presence, expiry, rq, sent>>
           ELSE IF position > Len(heap[documents[clients[c].docId]].content)
                THEN /\ tasks' = Append(tasks, Finish(t, "error"))
                     /\ sent' = SendToClient(sent, registered, c, ErrorMsg("Invalid position"))
                     /\ MacroEnd(c, mq)
                     /\ UNCHANGED <<presence, expiry, rq>>
                ELSE /\ presence' = HSet(presence, clients[c].docId, clients[c].userId, position)
                     /\ expiry' = Touch(expiry, presence', clients[c].docId)
                     /\ rq' = Append(rq, i)
                     /\ tasks' = Append(tasks, t)
                     /\ MacroEnd(c, mq)
                     /\ UNCHANGED sent
    /\ UNCHANGED <<ot, db, documents, heap, clients, registered, now, applied,
                   nextOpId, editor, rd>>

RecvCursorUpdate(c, position) ==
    /\ Budget
    /\ MacroOK(c)
    /\ c \in registered
    /\ LET i == Len(tasks) + 1
           t == NewTask("CURSOR", c, "adding", clients[c].docId,
                        [NoOp EXCEPT !.type = "cursor", !.position = position])
       IN  IF clients[c].docId = NoDoc
           THEN /\ tasks' = Append(tasks, Finish(t, "dropped"))
                /\ MacroEnd(c, mq)
                /\ UNCHANGED <<presence, expiry, rq>>
           ELSE /\ presence' = HSet(presence, clients[c].docId, clients[c].userId, position)
                /\ expiry' = Touch(expiry, presence', clients[c].docId)
                /\ rq' = Append(rq, i)
                /\ tasks' = Append(tasks, t)
                /\ MacroEnd(c, mq)
    /\ UNCHANGED <<ot, db, documents, heap, clients, registered, sent, now, applied,
                   nextOpId, editor, rd>>

(* handleCursorUpdate after updateCursor *)
BroadcastCursor ==
    /\ Running("expired")
    /\ tasks[Head(mq)].kind = "CURSOR"
    /\ LET i == Head(mq)
           t == tasks[i]
       IN /\ sent' = BroadcastToDocument(sent, registered, clients, clients[t.cid].docId,
                                         CursorUpdate(t.op.position), t.cid)
          /\ tasks' = [tasks EXCEPT ![i] = [Finish(t, "cursor") EXCEPT
                                               !.members = JoinedTo(t.docId)]]
          /\ MicroEnd(Tail(mq))
    /\ UNCHANGED <<ot, db, documents, heap, clients, registered, presence, expiry, rq, now,
                   applied, nextOpId, editor, rd>>

NextCursor ==
    \/ \E c \in Sessions, position \in 0..MaxCursor : RecvCursorUpdate(c, position)
    \/ \E c \in Sessions : RemoveClient(c)
    \/ RedisReply
    \/ Hop
    \/ AddUserExpire
    \/ BroadcastCursor

SpecCursor == Init /\ [][NextCursor]_vars

(* validate and apply called directly on one operation, as the validate    *)
(* and apply tests of engine.test.ts do: any position from before the      *)
(* start to past the end, any length from 0, empty text included           *)

ProbeOps ==
    {[NoOp EXCEPT !.opId = 1, !.docId = "d1", !.userId = "u1", !.type = "insert",
                  !.position = p, !.text = t] :
        p \in -1..MaxLen + 1, t \in OTTexts \cup {<<>>}}
    \cup {[NoOp EXCEPT !.opId = 1, !.docId = "d1", !.userId = "u1", !.type = "delete",
                       !.position = p, !.length = l] : p \in -1..MaxLen + 1, l \in 0..MaxDel}

InitProbe ==
    /\ InitServer
    /\ \E content \in OTContents, op \in ProbeOps :
          ot = [NoRun EXCEPT !.pc = "probe", !.content = content, !.op1 = op]

RunValidate ==
    /\ ot.pc = "probe"
    /\ ot' = [ot EXCEPT !.pc = "validated", !.valid = Validate(ot.content, ot.op1)]
    /\ UNCHANGED <<db, documents, heap, clients, registered, presence, expiry, tasks, mq, rq,
                   turn, sent, now, applied, nextOpId, editor, rd>>

RunApplyOne ==
    /\ ot.pc = "validated"
    /\ ot' = [ot EXCEPT !.pc = "probed", !.result = Apply(ot.content, ot.op1)]
    /\ UNCHANGED <<db, documents, heap, clients, registered, presence, expiry, tasks, mq, rq,
                   turn, sent, now, applied, nextOpId, editor, rd>>

NextProbe ==
    \/ RunValidate
    \/ RunApplyOne

SpecProbe == InitProbe /\ [][NextProbe]_vars

(* Write-backs that may fail: up to MaxRetry insertions by s1 on the       *)
(* loaded document d1, the clock passing the save interval, each store     *)
(* write resolving or rejecting                                            *)

SubmitEdit(c, op) ==
    /\ NumTasks("APPLY") < MaxRetry
    /\ HandleApplyOpStart(c, op)
    /\ UNCHANGED <<editor, rd>>

NextRetry ==
    \/ \E op \in EditInputs("s1") : SubmitEdit("s1", op)
    \/ \E i \in TaskIds : PersistResolve(i)
    \/ \E i \in TaskIds : PersistReject(i)
    \/ Tick
    \/ Hop
    \/ ApplyOperation
    \/ PersistDone
    \/ ApplyReturn
    \/ HandleApplyOpAck
    \/ HandleMessageCatch

SpecRetry == Init /\ [][NextRetry]_vars

(* One user with two sessions (two tabs opened with the same token), both  *)
(* joined to d1: authenticateConnection gives both the same userId         *)
TwinUser == "u1"
TwinCursors == [u \in Users |-> IF u = TwinUser THEN 0 ELSE NoCursor]

InitTwin ==
    /\ db = [d \in Docs |-> [content |-> Seed, version |-> 0]]
    /\ documents = [d \in Docs |-> IF d = "d1" THEN 1 ELSE 0]
    /\ heap = <<[content |-> Seed, version |-> 0, pendingOps |-> <<>>,
                 lastSaveTime |-> 0, opsSinceLastSave |-> 0]>>
    /\ clients = [c \in Sessions |-> [userId |-> TwinUser, docId |-> "d1"]]
    /\ registered = Sessions
    /\ presence = [d \in Docs |-> IF d = "d1" THEN TwinCursors ELSE [u \in Users |-> NoCursor]]
    /\ expiry = JoinedExpiry(presence)
    /\ tasks = <<JoinedTask("s1", TwinCursors), JoinedTask("s2", TwinCursors)>>
    /\ mq = <<>>
    /\ rq = <<>>
    /\ turn = "idle"
    /\ sent = [c \in Sessions |->
                 IF c = "s1"
                 THEN <<SyncState(Seed, 0, TwinCursors), UserJoined(TwinUser)>>
                 ELSE <<SyncState(Seed, 0, TwinCursors)>>]
    /\ now = 0
    /\ applied = <<>>
    /\ nextOpId = 1
    /\ editor = [c \in Sessions |->
                   [docId |-> "d1", content |-> Seed, serverVersion |-> 0,
                    localVersion |-> 0, pendingOps |-> <<>>,
                    cursors |-> TwinCursors,
                    collaborators |-> IF c = "s1" THEN <<TwinUser>> ELSE <<>>]]
    /\ rd = [c \in Sessions |-> Len(sent[c])]
    /\ ot = NoRun

SpecTwin == InitTwin /\ [][NextPresence]_vars

(* The store has no document under d2: JOIN_DOCUMENT frames that name it *)
InitMissing ==
    /\ db = [d \in Docs |-> IF d = "d1" THEN [content |-> Seed, version |-> 0] ELSE NoRecord]
    /\ documents = [d \in Docs |-> IF d = "d1" THEN 1 ELSE 0]
    /\ heap = <<[content |-> Seed, version |-> 0, pendingOps |-> <<>>,
                 lastSaveTime |-> 0, opsSinceLastSave |-> 0]>>
    /\ clients = [c \in Sessions |-> [userId |-> userOf(c), docId |-> "d1"]]
    /\ registered = Sessions
    /\ presence = [d \in Docs |-> [u \in Users |-> IF d = "d1" THEN 0 ELSE NoCursor]]
    /\ expiry = JoinedExpiry(presence)
    /\ tasks = <<JoinedTask("s1", [u \in Users |-> IF u = "u1" THEN 0 ELSE NoCursor]),
                 JoinedTask("s2", [u \in Users |-> 0])>>
    /\ mq = <<>>
    /\ rq = <<>>
    /\ turn = "idle"
    /\ sent = [c \in Sessions |->
                 IF c = "s1"
                 THEN <<SyncState(Seed, 0, [u \in Users |-> IF u = "u1" THEN 0 ELSE NoCursor]),
                        UserJoined("u2")>>
                 ELSE <<SyncState(Seed, 0, [u \in Users |-> 0])>>]
    /\ now = 0
    /\ applied = <<>>
    /\ nextOpId = 1
    /\ editor = [c \in Sessions |->
                   [docId |-> "d1", content |-> Seed, serverVersion |-> 0,
                    localVersion |-> 0, pendingOps |-> <<>>,
                    cursors |-> sent[c][1].cursors,
                    collaborators |-> IF c = "s1" THEN <<"u2">> ELSE <<>>]]
    /\ rd = [c \in Sessions |-> Len(sent[c])]
    /\ ot = NoRun

(* a JOIN_DOCUMENT frame of c arrives *)
AttemptJoin(c, docId) ==
    /\ NumTasks("JOIN") < MaxAttempts + Cardinality(Sessions)
    /\ HandleJoinDocumentStart(c, docId)

NextMissing ==
    \/ \E c \in Sessions, d \in Docs : AttemptJoin(c, d)
    \/ RedisReply
    \/ \E i \in TaskIds : FetchResolve(i)
    \/ Hop
    \/ LeaveContinue
    \/ AddUserExpire
    \/ JoinLoad
    \/ GetDocument
    \/ JoinGetCursors
    \/ SendSyncState
    \/ HandleMessageCatch

SpecMissing == InitMissing /\ [][NextMissing]_vars

(* Operations whose payload names any document, from a session that moves  *)
(* between the documents: s1 joins and submits, s2 stays on d1             *)
RoutedInputs(c) ==
    {[NoOp EXCEPT !.opId = nextOpId, !.docId = d, !.userId = clients[c].userId,
                  !.baseVersion = 0, !.type = "insert", !.position = 0, !.text = t] :
        d \in Docs, t \in Texts}

NextRoute ==
    \/ \E d \in Docs : AttemptJoin("s1", d)
    \/ \E op \in RoutedInputs("s1") : EditDocument("s1", op)
    \/ RedisReply
    \/ \E i \in TaskIds : FetchResolve(i)
    \/ Hop
    \/ LoadDocumentSet
    \/ ApplyOperation
    \/ HandleApplyOpAck
    \/ LeaveContinue
    \/ AddUserExpire
    \/ JoinLoad
    \/ GetDocument
    \/ JoinGetCursors
    \/ SendSyncState

SpecRoute == Init /\ [][NextRoute]_vars

(* Helpers of the properties *)

Frames(c, type) == {k \in 1..Len(sent[c]) : sent[c][k].type = type}
AppliedAt(opId) == {k \in 1..Len(applied) : applied[k].op.opId = opId}
ApplyTasks == {i \in TaskIds : tasks[i].kind = "APPLY"}
TaskOfOp(opId) == CHOOSE i \in ApplyTasks : tasks[i].op.opId = opId
IsNoOp(op) == op.type = "delete" /\ op.length = 0
AcksOf(c, opId) == {k \in Frames(c, "ACK_OP") : sent[c][k].opId = opId}
BroadcastsOf(c, opId) == {k \in Frames(c, "BROADCAST_OP") : sent[c][k].op.opId = opId}
StatesOf(docId) == {tasks[i].st : i \in {j \in TaskIds : tasks[j].docId = docId}} \ {0}
Quiescent ==
    /\ mq = <<>> /\ rq = <<>>
    /\ \A i \in TaskIds : tasks[i].pc = "done"
    /\ \A c \in Sessions : rd[c] = Len(sent[c])

----------------------------------------------------------------------------
(* C1: every session receives a document's BROADCAST_OP frames in the order *)
(* in which the operations were applied to the document.                   *)
C1_BroadcastOrder ==
    \A c \in Sessions : \A k, l \in Frames(c, "BROADCAST_OP") :
        k < l =>
            \A a \in AppliedAt(sent[c][k].op.opId), b \in AppliedAt(sent[c][l].op.opId) :
                applied[a].docId = applied[b].docId => a < b

(* C2: once every handler has finished and every frame has been handled by *)
(* its browser, each joined editor holds the content of the authority.     *)
C2_Convergence ==
    Quiescent =>
        \A c \in registered :
            clients[c].docId # NoDoc =>
                editor[c].content = heap[documents[clients[c].docId]].content

(* C3: a document's version strictly increases in application order and    *)
(* the newVersion values acknowledged for it are pairwise distinct for     *)
(* operations that are not no-ops.                                         *)
C3_MonotonicVersion ==
    /\ \A a, b \in 1..Len(applied) :
          (a < b /\ applied[a].docId = applied[b].docId) =>
              applied[a].version < applied[b].version
    /\ \A i, j \in ApplyTasks :
          (/\ i # j
           /\ tasks[i].outcome = "ack" /\ tasks[j].outcome = "ack"
           /\ tasks[i].docId = tasks[j].docId
           /\ ~IsNoOp(tasks[i].top) /\ ~IsNoOp(tasks[j].top))
          => tasks[i].newVersion # tasks[j].newVersion

(* C4: at most one authority state ever exists per docId, and every        *)
(* applied operation is in the state the registry holds for its document.  *)
C4_SingleAuthority ==
    /\ \A d \in Docs : Cardinality(StatesOf(d)) <= 1
    /\ \A a \in 1..Len(applied) : applied[a].st = documents[applied[a].docId]

(* C5: an APPLY_OP answered with ERROR has left no trace in the document:  *)
(* its operation was not applied.                                          *)
C5_FailureLeavesState ==
    \A i \in ApplyTasks :
        tasks[i].outcome = "error" => AppliedAt(tasks[i].op.opId) = {}

(* C6: the userId of every broadcast operation is the authenticated userId *)
(* of the session that submitted it.                                       *)
C6_IdentityOwnership ==
    \A c \in Sessions : \A k \in Frames(c, "BROADCAST_OP") :
        sent[c][k].op.userId = clients[tasks[TaskOfOp(sent[c][k].op.opId)].cid].userId

(* C7: a handled APPLY_OP whose operation was applied has exactly one      *)
(* ACK_OP, in the log of its own session (while that session is connected) *)
(* and in no other.                                                        *)
C7_ExactlyOneAck ==
    \A i \in ApplyTasks :
        (tasks[i].pc = "done" /\ AppliedAt(tasks[i].op.opId) # {}) =>
            /\ tasks[i].cid \in registered =>
                  Cardinality(AcksOf(tasks[i].cid, tasks[i].op.opId)) = 1
            /\ \A c \in Sessions \ {tasks[i].cid} : AcksOf(c, tasks[i].op.opId) = {}

(* C8: the submitter never receives the BROADCAST_OP of its own operation, *)
(* and every other session joined to the operation's document when it is   *)
(* broadcast receives it exactly once.                                     *)
C8_BroadcastExclusion ==
    \A i \in ApplyTasks :
        /\ BroadcastsOf(tasks[i].cid, tasks[i].op.opId) = {}
        /\ tasks[i].outcome = "ack" =>
              \A c \in tasks[i].members \ {tasks[i].cid} :
                  Cardinality(BroadcastsOf(c, tasks[i].op.opId)) = 1

(* C9: a session receives the ACK_OP frames of its operations in the order *)
(* in which its APPLY_OP frames arrived.                                   *)
C9_AckOrder ==
    \A c \in Sessions : \A k, l \in Frames(c, "ACK_OP") :
        k < l => TaskOfOp(sent[c][k].opId) < TaskOfOp(sent[c][l].opId)

(* C10: every operation the authority applies is valid on the content it   *)
(* is applied to.                                                          *)
C10_AppliedOpsValid ==
    \A a \in 1..Len(applied) : Validate(applied[a].before, applied[a].op)

(* C11: a delete that the transform reduced to length 0 is not applied (no  *)
(* content, version or tail change is logged for it) and is not broadcast  *)
(* to any session.                                                         *)
C11_NoOpNotApplied ==
    /\ \A a \in 1..Len(applied) : ~IsNoOp(applied[a].op)
    /\ \A c \in Sessions : \A k \in Frames(c, "BROADCAST_OP") : ~IsNoOp(sent[c][k].op)

(* C12: no operation is applied whose baseVersion is greater than the      *)
(* version the document had when the operation was handled.                *)
C12_FromTheFuture ==
    \A a \in 1..Len(applied) : applied[a].op.baseVersion <= applied[a].version - 1

(* C13: no operation is applied whose baseVersion is older than the oldest *)
(* operation of the tail: baseVersion >= version - len(tail), taken when   *)
(* the operation is handled.                                               *)
C13_TooStale ==
    \A a \in 1..Len(applied) :
        applied[a].op.baseVersion >= (applied[a].version - 1) - applied[a].tail

SameBaseInserts(i) ==
    LET a == tasks[TaskOfOp(applied[i].op.opId)].op
        b == tasks[TaskOfOp(applied[i + 1].op.opId)].op
        v == applied[i].version - 1
    IN  /\ applied[i].st = applied[i + 1].st
        /\ a.type = "insert" /\ b.type = "insert"
        /\ a.baseVersion = v /\ b.baseVersion = v
        /\ Validate(applied[i].before, b)

(* C14: two inserts a, b formed on the same version v, valid on the        *)
(* content at v and applied one after the other: a is applied as sent, b   *)
(* at b.position + len(a.text) when a.position <= b.position and at        *)
(* b.position otherwise, on the content a produced, giving version v + 2.  *)
C14_ConcurrentInserts ==
    \A i \in 1..(Len(applied) - 1) :
        SameBaseInserts(i) =>
            LET a == tasks[TaskOfOp(applied[i].op.opId)].op
                b == tasks[TaskOfOp(applied[i + 1].op.opId)].op
            IN  /\ applied[i].op = a
                /\ applied[i + 1].op.position =
                      IF a.position <= b.position THEN b.position + Len(a.text)
                      ELSE b.position
                /\ applied[i + 1].before = Apply(applied[i].before, a)
                /\ applied[i + 1].version = applied[i].version + 1

StrictlyInside(ins, del) ==
    del.position < ins.position /\ ins.position < del.position + del.length
NonAliasing(a, b) ==
    IF a.type = "insert" /\ b.type = "insert" THEN a.position # b.position
    ELSE IF a.type = "insert" THEN ~StrictlyInside(a, b)
    ELSE IF b.type = "insert" THEN ~StrictlyInside(b, a)
    ELSE \/ a.position + a.length <= b.position
         \/ b.position + b.length <= a.position
BothValid == Validate(ot.content, ot.op1) /\ Validate(ot.content, ot.op2)

(* C15: TP1.  For a content and two operations valid on it that do not     *)
(* alias (inserts at different positions, an insert not strictly inside a  *)
(* deleted range, deletes with disjoint ranges), applying op1 and then op2 *)
(* transformed against op1 gives the same string as applying op2 and then  *)
(* op1 transformed against op2.                                            *)
C15_TP1 ==
    (ot.pc = "applied" /\ BothValid /\ NonAliasing(ot.op1, ot.op2)) =>
        ot.result12 = ot.result21
C15_Witness ==
    /\ ot.pc = "applied" /\ BothValid /\ NonAliasing(ot.op1, ot.op2)
    /\ ot.op1.type = "insert" /\ ot.op2.type = "delete"
    /\ ot.op1.position = ot.op2.position
    /\ ot.result12 = ot.result21
    /\ Len(ot.result12) = Len(ot.content) + Len(ot.op1.text) - ot.op2.length

RangesOverlap(a, b) ==
    Max(a.position, b.position) < Min(a.position + a.length, b.position + b.length)
WithoutUnion(content, a, b) ==
    Slice(content, 0, Min(a.position, b.position))
        \o SliceFrom(content, Max(a.position + a.length, b.position + b.length))
OverlappingDeletes ==
    /\ ot.pc = "applied" /\ BothValid
    /\ ot.op1.type = "delete" /\ ot.op2.type = "delete"
    /\ RangesOverlap(ot.op1, ot.op2)

(* C16: for two deletes valid on a content whose ranges overlap, both      *)
(* orders of application give the content without the union of the two     *)
(* ranges, and each transformed delete has its length reduced by the       *)
(* overlap (to 0 when its range is covered).                               *)
C16_DeleteDelete ==
    OverlappingDeletes =>
        LET overlap == Min(ot.op1.position + ot.op1.length, ot.op2.position + ot.op2.length)
                         - Max(ot.op1.position, ot.op2.position)
        IN  /\ ot.result12 = ot.result21
            /\ ot.result12 = WithoutUnion(ot.content, ot.op1, ot.op2)
            /\ ot.transformed1.length = ot.op1.length - overlap
            /\ ot.transformed2.length = ot.op2.length - overlap
C16_Witness ==
    /\ OverlappingDeletes
    /\ ot.op1.position < ot.op2.position
    /\ ot.op2.position < ot.op1.position + ot.op1.length
    /\ ot.op1.position + ot.op1.length < ot.op2.position + ot.op2.length
    /\ ot.transformed1.length > 0 /\ ot.transformed2.length > 0
    /\ ot.result12 = WithoutUnion(ot.content, ot.op1, ot.op2)

JoinsInProgress == {i \in TaskIds : tasks[i].kind = "JOIN" /\ tasks[i].pc # "done"}

(* C17: while a JOIN_DOCUMENT of a session for document D is being handled *)
(* (its SYNC_STATE not sent yet), the session is sent no BROADCAST_OP of   *)
(* an operation of D.                                                      *)
C17_SyncBeforeBroadcast ==
    \A i \in JoinsInProgress :
        \A k \in Frames(tasks[i].cid, "BROADCAST_OP") :
            k > tasks[i].at => sent[tasks[i].cid][k].op.docId # tasks[i].docId

(* C18: an APPLY_OP that arrives after the session's JOIN_DOCUMENT for a   *)
(* document D it was not joined to is not applied to D while that join is  *)
(* still being handled (its SYNC_STATE not sent yet).                      *)
C18_ApplyAfterSync ==
    \A i \in JoinsInProgress : \A a \in 1..Len(applied) :
        ~(/\ tasks[i].left # tasks[i].docId
          /\ applied[a].cid = tasks[i].cid
          /\ applied[a].docId = tasks[i].docId
          /\ TaskOfOp(applied[a].op.opId) > i)

(* C19: a BROADCAST_OP of an operation applied to document D is sent only  *)
(* to sessions that are joined to D when it is broadcast.                  *)
C19_BroadcastScoping ==
    \A i \in ApplyTasks :
        tasks[i].outcome = "ack" =>
            \A c \in Sessions :
                BroadcastsOf(c, tasks[i].op.opId) # {} => c \in tasks[i].members

WritesInFlight(st) ==
    {i \in ApplyTasks : tasks[i].pst = st /\ tasks[i].pc \in {"persisting", "persisted"}}

(* C20: with the time trigger out of play (the clock has not advanced      *)
(* since the document was loaded), reaching SAVE_OP_THRESHOLD operations   *)
(* since the last persist puts one store write in flight for the document *)
(* and no second one before the bookkeeping of that write has reset the    *)
(* count.                                                                  *)
C20_OneWritePerTrigger ==
    now = 0 =>
        \A st \in 1..Len(heap) : Cardinality(WritesInFlight(st)) <= 1

(* the store is behind the state the registry holds for docId *)
Unsaved(docId) ==
    /\ documents[docId] # 0
    /\ heap[documents[docId]].version > db[docId].version

SaveDue(docId) == now - heap[documents[docId]].lastSaveTime >= SAVE_INTERVAL

(* a store write that carries the current version of docId is pending *)
WriteIssued(docId) ==
    \E i \in TaskIds : /\ tasks[i].pc = "persisting"
                       /\ tasks[i].docId = docId
                       /\ tasks[i].snap.version >= heap[documents[docId]].version

(* C21: whenever a document has applied operations the store does not hold *)
(* and the save interval has elapsed since its last save, a store write    *)
(* that covers them is eventually issued (or the store already holds       *)
(* them), also when no further operation arrives.                          *)
C21_PersistOnIdle ==
    \A docId \in Docs :
        [](Unsaved(docId) /\ SaveDue(docId)
             => <>(~Unsaved(docId) \/ WriteIssued(docId)))

MalformedFrames(c) == {i \in TaskIds : tasks[i].kind = "MALFORMED" /\ tasks[i].cid = c}

FormatErrors(c) == {k \in Frames(c, "ERROR") : sent[c][k].message = "Invalid message format"}

(* C22: every inbound frame that is not a well-formed protocol message     *)
(* (text that does not parse, or a value without a known type tag) is      *)
(* answered with exactly one ERROR "Invalid message format" to its         *)
(* session, which stays registered.                                        *)
C22_MalformedFrame ==
    \A c \in Sessions :
        /\ Cardinality(FormatErrors(c)) = Cardinality(MalformedFrames(c))
        /\ \A i \in MalformedFrames(c) :
              \E k \in FormatErrors(c) : k > tasks[i].at

(* PRESENCE_TTL seconds have passed since the last command on the hash *)
NoPresenceWriteFor(docId) == now - expiry[docId].wrote >= PRESENCE_TTL * 1000

(* C23: once the session of a user joined to a document has disconnected   *)
(* or gone silent and PRESENCE_TTL seconds have passed without a presence  *)
(* write on the document, getUsers of the document no longer lists the     *)
(* user (nor anyone else).                                                 *)
C23_PresenceExpires ==
    \A docId \in Docs :
        NoPresenceWriteFor(docId) => GetUsers(presence, docId) = {}

(* a session that joined d2 has disconnected, another is still connected   *)
(* but silent, and the hash of d2 has timed out                            *)
C23_Witness ==
    \E c \in Sessions \ registered :
        /\ clients[c].docId = "d2"
        /\ expiry["d2"].wrote > 0
        /\ NoPresenceWriteFor("d2")
        /\ NoPresenceWriteFor("d1")
        /\ registered # {}

(* this step is a call of removeClient(c) *)
IsRemoveCall(c) ==
    /\ Len(tasks') = Len(tasks) + 1
    /\ tasks'[Len(tasks')].kind = "CLOSE"
    /\ tasks'[Len(tasks')].cid = c

(* C24: a call of removeClient for a session that is not registered (a     *)
(* second call, an unknown session) sends nothing, removes no presence     *)
(* and leaves the registry as it is; the call for a registered, joined     *)
(* session sends USER_LEFT exactly once to each other session of its       *)
(* document and nothing to anyone else.                                    *)
C24_RemoveClientIdempotent ==
    [][\A c \in Sessions :
          IsRemoveCall(c) =>
             IF c \in registered /\ clients[c].docId # NoDoc
             THEN /\ registered' = registered \ {c}
                  /\ userOf(c) \notin GetUsers(presence', clients[c].docId)
                  /\ \A o \in Sessions :
                        IF o \in JoinedTo(clients[c].docId) \ {c}
                        THEN sent'[o] = Append(sent[o], UserLeft(userOf(c)))
                        ELSE sent'[o] = sent[o]
             ELSE /\ sent' = sent
                  /\ presence' = presence
                  /\ registered' = registered]_vars

(* removeClient has been called twice for the same joined session *)
C24_Witness ==
    \E i, j \in TaskIds :
        /\ i < j
        /\ tasks[i].kind = "CLOSE" /\ tasks[j].kind = "CLOSE"
        /\ tasks[i].cid = tasks[j].cid
        /\ tasks[i].outcome = "removed" /\ tasks[j].outcome = "unknown"
        /\ \A o \in Sessions \ {tasks[i].cid} : Cardinality(Frames(o, "USER_LEFT")) = 1

(* this step finishes the APPLY_OP handler i of a session that has         *)
(* disconnected since the frame arrived                                    *)
FinishesOrphan(i) ==
    /\ tasks[i].kind = "APPLY"
    /\ tasks[i].pc # "done"
    /\ tasks'[i].pc = "done"
    /\ tasks[i].cid \notin registered

(* C25: when a session disconnects while its APPLY_OP is in flight, the    *)
(* operation is applied exactly once, BROADCAST_OP for it reaches every    *)
(* other session of the document, and nothing further is sent to the       *)
(* disconnected session.                                                   *)
C25_DisconnectInFlight ==
    [][\A i \in TaskIds :
          FinishesOrphan(i) =>
             /\ sent'[tasks[i].cid] = sent[tasks[i].cid]
             /\ Cardinality(AppliedAt(tasks[i].op.opId)) <= 1
             /\ AppliedAt(tasks[i].op.opId) # {} =>
                   \A o \in JoinedTo(tasks[i].docId) \ {tasks[i].cid} :
                       \E k \in 1..Len(sent'[o]) :
                           /\ sent'[o][k].type = "BROADCAST_OP"
                           /\ sent'[o][k].op.opId = tasks[i].op.opId]_vars

(* the finished JOIN_DOCUMENT handlers that took session c from one        *)
(* document to another, c having sent no JOIN_DOCUMENT since               *)
SwitchesOf(c) ==
    {i \in TaskIds : /\ tasks[i].kind = "JOIN" /\ tasks[i].cid = c
                     /\ tasks[i].pc = "done" /\ tasks[i].outcome = "sync"
                     /\ tasks[i].left \notin {NoDoc, tasks[i].docId}
                     /\ \A j \in TaskIds : j > i => ~(tasks[j].kind = "JOIN" /\ tasks[j].cid = c)}

(* the place in sent[c] of the SYNC_STATE that handler i sent *)
SyncAt(c, i) == CHOOSE k \in Frames(c, "SYNC_STATE") :
                    k > tasks[i].at /\ \A j \in Frames(c, "SYNC_STATE") : j > tasks[i].at => k <= j

(* the document an operation was applied to *)
ScopeOf(opId) == {applied[k].docId : k \in AppliedAt(opId)}

(* C26: a session that moves from document D1 to document D2 never gets    *)
(* its own USER_LEFT or USER_JOINED, and after the SYNC_STATE for D2 it    *)
(* receives no broadcast of an operation applied to D1.                    *)
C26_SwitchDocument ==
    \A c \in Sessions :
        /\ \A k \in Frames(c, "USER_LEFT") \cup Frames(c, "USER_JOINED") :
              sent[c][k].userId # userOf(c)
        /\ \A i \in SwitchesOf(c) :
              \A k \in Frames(c, "BROADCAST_OP") :
                  k > SyncAt(c, i) => tasks[i].left \notin ScopeOf(sent[c][k].op.opId)

CursorTasks == {i \in TaskIds : tasks[i].kind = "CURSOR" /\ tasks[i].outcome = "cursor"}

(* C27: for every CURSOR_UPDATE of a session joined to a document, each    *)
(* other session of the document is sent a CURSOR_UPDATE that carries the  *)
(* sender's authenticated user id and the position.                        *)
C27_CursorCarriesUser ==
    \A i \in CursorTasks :
        \A o \in tasks[i].members \ {tasks[i].cid} :
            \E k \in Frames(o, "CURSOR_UPDATE") :
                /\ sent[o][k].position = tasks[i].op.position
                /\ "userId" \in DOMAIN sent[o][k]
                /\ sent[o][k].userId = userOf(tasks[i].cid)

(* the invariants of an operation against a content *)
WellFormedOn(content, op) ==
    /\ 0 <= op.position
    /\ op.position <= Len(content)
    /\ \/ op.type = "insert" /\ op.text # <<>>
       \/ op.type = "delete" /\ op.length > 0 /\ op.position + op.length <= Len(content)

(* C28: validate(content, op) is true if and only if                       *)
(* 0 <= position <= len(content) and the insert has a non-empty text or    *)
(* the delete has length > 0 and position + length <= len(content).        *)
C28_ValidateIff ==
    ot.pc \in {"validated", "probed"} =>
        (ot.valid <=> WellFormedOn(ot.content, ot.op1))

(* validate has refused a delete that starts inside the content and        *)
(* reaches past its end                                                    *)
C28_Witness ==
    /\ ot.pc = "validated"
    /\ ~ot.valid
    /\ ot.op1.type = "delete"
    /\ ot.op1.position >= 0
    /\ ot.op1.position < Len(ot.content)
    /\ ot.op1.length > 0
    /\ ot.op1.position + ot.op1.length > Len(ot.content)

(* content[0:n] and content[n:] of the claim, n within the content *)
Prefix(content, n) == SubSeq(content, 1, n)
Suffix(content, n) == SubSeq(content, n + 1, Len(content))

(* C29: for every content and every operation valid on it, apply returns   *)
(* content[0:position] + text + content[position:] for an insert (longer   *)
(* by len(text)) and content[0:position] + content[position+length:] for   *)
(* a delete (shorter by exactly length).                                   *)
C29_ApplyResult ==
    (ot.pc = "probed" /\ ot.valid) =>
        IF ot.op1.type = "insert"
        THEN /\ ot.result = Prefix(ot.content, ot.op1.position) \o ot.op1.text
                               \o Suffix(ot.content, ot.op1.position)
             /\ Len(ot.result) = Len(ot.content) + Len(ot.op1.text)
        ELSE /\ ot.result = Prefix(ot.content, ot.op1.position)
                               \o Suffix(ot.content, ot.op1.position + ot.op1.length)
             /\ Len(ot.result) = Len(ot.content) - ot.op1.length

(* apply has run on a valid insertion in the middle of the content *)
C29_Witness ==
    /\ ot.pc = "probed"
    /\ ot.valid
    /\ ot.op1.type = "insert"
    /\ ot.op1.position > 0
    /\ ot.op1.position < Len(ot.content)
    /\ Len(ot.result) = Len(ot.content) + Len(ot.op1.text)

(* r is op with at most position and, for a delete, length changed, at the *)
(* position the rules give against other                                   *)
FollowsRules(op, other, r) ==
    LET end == other.position + other.length
    IN  /\ [r EXCEPT !.position = op.position, !.length = op.length] = op
        /\ op.type = "insert" => r.length = op.length
        /\ r.position =
              IF other.type = "insert"
              THEN IF other.position <= op.position
                   THEN op.position + Len(other.text)
                   ELSE op.position
              ELSE IF end <= op.position
                   THEN op.position - other.length
                   ELSE IF other.position < op.position /\ op.position < end
                        THEN other.position
                        ELSE op.position
        /\ r.position >= 0

ProducerOf(st, ver) == CHOOSE j \in 1..Len(applied) : applied[j].st = st /\ applied[j].version = ver

(* the opIds of the operations that produced versions b+1 .. v of st, in   *)
(* version order                                                           *)
AppliedSince(st, b, v) == [n \in 1..(v - b) |-> applied[ProducerOf(st, b + n)].op.opId]

(* C31: an operation with baseVersion b smaller than the current version   *)
(* is transformed against exactly the operations that produced versions    *)
(* b+1 .. version, in increasing version order.                            *)
C31_TransformAgainstUnseen ==
    \A k \in 1..Len(applied) :
        LET b == tasks[TaskOfOp(applied[k].op.opId)].op.baseVersion
            v == applied[k].version - 1
        IN  b < v => applied[k].against = AppliedSince(applied[k].st, b, v)

(* C32: after every applyOperation the retained tail of the document holds *)
(* at most TAIL_KEEP operations (the one just applied included).           *)
C32_TailWindow ==
    \A k \in 1..Len(applied) : applied[k].tail + 1 <= TAIL_KEEP

(* handler i is inside persistDocument: the store write carrying the       *)
(* content and version it read is pending, or has resolved and the         *)
(* bookkeeping has not run yet                                             *)
InWriteBack(i) == tasks[i].pc \in {"persisting", "persisted"}

(* this step is an applyOperation that mutates the state st *)
AppliesTo(st) ==
    /\ Len(applied') = Len(applied) + 1
    /\ applied'[Len(applied')].st = st

(* C33: between the moment a write-back of a document reads its content    *)
(* and version and the moment it finishes its bookkeeping, no              *)
(* applyOperation mutates that document.                                   *)
C33_WriteBackSerialized ==
    [][\A i \in TaskIds : InWriteBack(i) => ~AppliesTo(tasks[i].pst)]_vars

(* this step is the rejection of the store write of handler i *)
WriteFails(i) == tasks[i].pc = "persisting" /\ tasks'[i].pc = "throwing"

(* in this step handler i applies its operation and leaves the document    *)
(* due for a save                                                          *)
AppliesAtTrigger(i) ==
    /\ tasks[i].pc = "loaded"
    /\ tasks'[i].pc # "loaded"
    /\ AppliesTo(tasks[i].st)
    /\ \/ now - heap'[tasks[i].st].lastSaveTime >= SAVE_INTERVAL
       \/ heap'[tasks[i].st].opsSinceLastSave >= SAVE_OP_THRESHOLD

(* C34: a failed store write leaves the document's content, version, tail, *)
(* operation count and last-save time (and the store) as they were, and    *)
(* every operation applied when a persistence trigger is met, also after   *)
(* a failure, starts a store write that carries the then-latest content    *)
(* and version.                                                            *)
C34_FailedWriteKeepsState ==
    [][\A i \in TaskIds :
          /\ WriteFails(i) => heap' = heap /\ db' = db
          /\ AppliesAtTrigger(i) =>
                /\ tasks'[i].pc = "persisting"
                /\ tasks'[i].snap = [content |-> heap'[tasks[i].st].content,
                                     version |-> heap'[tasks[i].st].version]]_vars

(* a store write has failed, and a later operation has been applied and    *)
(* has started a write that carries the latest version                     *)
C34_Witness ==
    \E i, j \in ApplyTasks :
        /\ i < j
        /\ tasks[i].err = "store write failed"
        /\ tasks[i].pc = "done"
        /\ tasks[j].pc = "persisting"
        /\ tasks[j].snap.version = heap[tasks[j].st].version
        /\ heap[tasks[j].st].opsSinceLastSave >= 2

(* this step is a step of the CURSOR_UPDATE handler i: its start or one of *)
(* its continuations                                                       *)
CursorStep(i) ==
    /\ i \in 1..Len(tasks')
    /\ tasks'[i].kind = "CURSOR"
    /\ i > Len(tasks) \/ tasks'[i] # tasks[i]

(* C35: handling a CURSOR_UPDATE with any position, also one outside the   *)
(* content, changes no document (content, version, tail, counters, store)  *)
(* and sends no ERROR; of the presence entries only the sender's own       *)
(* under its document changes.                                             *)
C35_CursorTouchesPresenceOnly ==
    [][\A i \in 1..Len(tasks') :
          CursorStep(i) =>
             /\ heap' = heap /\ documents' = documents /\ db' = db
             /\ \A o \in Sessions :
                   \A k \in 1..Len(sent'[o]) : k > Len(sent[o]) => sent'[o][k].type # "ERROR"
             /\ tasks'[i].outcome # "error"
             /\ \A d \in Docs, u \in Users :
                   presence'[d][u] # presence[d][u] =>
                       d = tasks'[i].docId /\ u = userOf(tasks'[i].cid)]_vars

(* a CURSOR_UPDATE with a position past the end of the content has been    *)
(* handled to its end                                                      *)
C35_Witness ==
    \E i \in CursorTasks :
        /\ tasks[i].op.position > Len(heap[documents[tasks[i].docId]].content)
        /\ tasks[i].cid \in registered
        /\ presence[tasks[i].docId][userOf(tasks[i].cid)] = tasks[i].op.position

(* the findByIdAndUpdate of a write-back of the state st is pending *)
StoreWritePending(st) ==
    \E i \in TaskIds : tasks[i].pst = st /\ tasks[i].pc = "persisting"

(* C36: whenever the operations-since-last-persist count of a document is  *)
(* 0 and no store write for it is in flight, the store holds the content   *)
(* and version the document has in memory.                                 *)
C36_ZeroCountMeansPersisted ==
    \A d \in Docs :
        (/\ documents[d] # 0
         /\ heap[documents[d]].opsSinceLastSave = 0
         /\ ~StoreWritePending(documents[d]))
        => /\ db[d].content = heap[documents[d]].content
           /\ db[d].version = heap[documents[d]].version

(* an addUser or updateCursor renewed the hash of docId less than          *)
(* PRESENCE_TTL ago                                                        *)
RecentPresenceWrite(docId) == now - expiry[docId].renewed < PRESENCE_TTL * 1000

(* the session c is inside handleJoinDocument, between the removeUser of   *)
(* the document it leaves and the end of the handler                       *)
Switching(c) == \E i \in TaskIds : tasks[i].kind = "JOIN" /\ tasks[i].cid = c /\ tasks[i].pc # "done"

(* C37: while a session of user u is joined to document D and a presence   *)
(* write on D occurred within the last TTL period, listUsers(D) contains   *)
(* u, also after another session of the same user has left D or            *)
(* disconnected.                                                           *)
C37_UserListedWhileJoined ==
    \A c \in registered :
        (/\ clients[c].docId # NoDoc
         /\ ~Switching(c)
         /\ RecentPresenceWrite(clients[c].docId))
        => clients[c].userId \in GetUsers(presence, clients[c].docId)

(* the JOIN_DOCUMENT handlers that failed because the store has no such    *)
(* document and that are the last join of their session                    *)
FailedJoins ==
    {i \in TaskIds : /\ tasks[i].kind = "JOIN"
                     /\ tasks[i].pc = "done"
                     /\ tasks[i].err = "Document not found"
                     /\ \A j \in TaskIds : j > i => ~(tasks[j].kind = "JOIN" /\ tasks[j].cid = tasks[i].cid)}

(* the JOIN_DOCUMENT handlers of session c that sent their SYNC_STATE *)
SyncedJoins(c) ==
    {i \in TaskIds : tasks[i].kind = "JOIN" /\ tasks[i].cid = c /\ tasks[i].outcome = "sync"}

(* how many USER_JOINED frames that name userId went out *)
Announced(userId) ==
    Cardinality(UNION {{<<o, k>> : k \in {n \in 1..Len(sent[o]) :
                                              /\ sent[o][n].type = "USER_JOINED"
                                              /\ sent[o][n].userId = userId}} :
                       o \in Sessions})

(* C38: after a JOIN_DOCUMENT that failed because the document does not    *)
(* exist, the origin has received an ERROR, the session is not joined to   *)
(* that docId, the user has no presence entry under it and no USER_JOINED  *)
(* was broadcast for the join.                                             *)
C38_FailedJoinLeavesNoTrace ==
    \A i \in FailedJoins :
        LET c == tasks[i].cid
        IN /\ \E k \in tasks[i].at + 1..Len(sent[c]) : sent[c][k].type = "ERROR"
           /\ clients[c].docId # tasks[i].docId
           /\ presence[tasks[i].docId][clients[c].userId] = NoCursor
           /\ Announced(clients[c].userId) <= Cardinality(SyncedJoins(c))

(* the versions produced by the operations whose BROADCAST_OP the editor   *)
(* of c has applied                                                        *)
VersionsSeen(c) ==
    {applied[a].version :
        a \in UNION {AppliedAt(sent[c][k].op.opId) :
                        k \in {n \in 1..rd[c] : sent[c][n].type = "BROADCAST_OP"}}}

(* C39: the serverVersion an editor puts as baseVersion into the           *)
(* operations it forms is never below the version produced by a            *)
(* BROADCAST_OP it has applied.                                            *)
C39_BaseVersionFollowsBroadcasts ==
    \A c \in Sessions : \A n \in VersionsSeen(c) : editor[c].serverVersion >= n

(* in this step the APPLY_OP frame of handler i arrives *)
Arrives(i) == i = Len(tasks) + 1 /\ Len(tasks') = i /\ tasks'[i].kind = "APPLY"

(* in this step handler i runs applyOperation past loadDocument *)
Applies(i) == tasks[i].kind = "APPLY" /\ tasks[i].pc = "loaded" /\ tasks'[i].pc # "loaded"

(* C40: an APPLY_OP is handed to the document its session is joined to     *)
(* when the frame is handled, whatever docId the payload names, and its    *)
(* application changes the state (content, version, tail) of no other      *)
(* document, also when the session has joined another document meanwhile.  *)
C40_ApplyStaysOnJoinedDocument ==
    [][/\ \A i \in 1..Len(tasks') :
             Arrives(i) => /\ tasks'[i].docId = clients[tasks'[i].cid].docId
                           /\ tasks'[i].pc = "loaded" =>
                                 tasks'[i].st = documents[tasks'[i].docId]
       /\ \A i \in TaskIds :
             Applies(i) => \A d \in Docs \ {tasks[i].docId} :
                              /\ documents[d] # tasks[i].st
                              /\ documents[d] # 0 => heap'[documents[d]] = heap[documents[d]]]_vars

(* an operation whose payload names another document has been applied to   *)
(* the document its session was joined to when it arrived, after the       *)
(* session had moved on to another document                                *)
C40_Witness ==
    \E i \in ApplyTasks :
        /\ tasks[i].pc = "returning"
        /\ AppliedAt(tasks[i].op.opId) # {}
        /\ tasks[i].op.docId # tasks[i].docId
        /\ clients[tasks[i].cid].docId # tasks[i].docId
        /\ documents[clients[tasks[i].cid].docId] # 0

====
